---- MODULE Spec2Model ----
(***************************************************************************)
(* Conversation turn engine of vellium (src-tauri/src/commands.rs):        *)
(* the timeline store (chats, branches, messages), the branch resolver,    *)
(* the stream decoder and the chat_send turn, as a state machine.          *)
(*                                                                         *)
(* Encoding of text.  A string is a sequence of characters, a network      *)
(* chunk a sequence of bytes.  Characters and bytes are written as short   *)
(* TLA+ strings:                                                           *)
(*   "NL"    the newline 0x0A            "SP"   a space                    *)
(*   "DATA"  the six ASCII bytes `data: `                                  *)
(*   "DONE"  the six ASCII bytes `[DONE]`                                  *)
(*   "{" "}" `{"choices":[` and `]}`     "(" ")" `{` and `}` of one choice *)
(*   "D"     `"delta":{"content":"`      "M"    `"message":{"content":"`   *)
(*   ";"     the `"}` closing a content string                             *)
(*   "a" "h" "e" ASCII letters           "#"    an ASCII byte of no role   *)
(*   "L" "C" the lead and the continuation byte of one two-byte UTF-8      *)
(*           character, which decodes to the character "E2"                *)
(*   "FFFD"  the replacement character U+FFFD (a character, never a byte)  *)
(* A cut of the stream falls between two of these units.                   *)
(***************************************************************************)
EXTENDS Integers, Sequences, FiniteSets, TLC

(***************************************************************************)
(* Bounds of the model.                                                    *)
(***************************************************************************)
MaxLines == 2       \* lines of a provider stream in SpecDecode
MaxTurns == 2       \* chat_send calls
MaxOps == 2         \* fork, edit, delete and regenerate calls
MaxFrags == 2       \* data lines of a well-formed stream in SpecLines
MaxChoices == 2     \* choices of one payload in SpecChoice
MaxBlocks == 4      \* prompt blocks of one list in SpecCompose
MaxApply == 2       \* successive applications of compose_prompt in SpecCompose
MaxChats == 2       \* chat_create calls in SpecBranches
MaxTies == 1        \* readings of the clock that repeat the one before, in SpecBranches

\* The ids Uuid::new_v4 hands out for chats and for branches, in order.
ChatIdPool == {1, 2, 3}
BranchIdPool == {1, 2, 3, 4, 5, 6}
\* The chat_send calls that may run at once.
Slots == {1, 2}

\* Option::None for an id; minted ids start at 1.
None == 0

(***************************************************************************)
(* Sequence helpers.                                                       *)
(***************************************************************************)
RECURSIVE Flatten(_)
Flatten(ss) == IF ss = <<>> THEN <<>> ELSE Head(ss) \o Flatten(Tail(ss))

Drop(s, n) == SubSeq(s, n + 1, Len(s))
Take(s, n) == SubSeq(s, 1, n)

(***************************************************************************)
(* String::from_utf8_lossy on one chunk: a complete two-byte sequence      *)
(* becomes its character, a lead byte without its continuation and a       *)
(* continuation byte without its lead become U+FFFD each.                  *)
(***************************************************************************)
RECURSIVE from_utf8_lossy(_)
from_utf8_lossy(bytes) ==
    IF bytes = <<>> THEN <<>>
    ELSE IF Head(bytes) = "L" /\ Len(bytes) >= 2 /\ bytes[2] = "C"
         THEN <<"E2">> \o from_utf8_lossy(Drop(bytes, 2))
    ELSE IF Head(bytes) \in {"L", "C"}
         THEN <<"FFFD">> \o from_utf8_lossy(Tail(bytes))
    ELSE <<Head(bytes)>> \o from_utf8_lossy(Tail(bytes))

(***************************************************************************)
(* str::trim: strips leading and trailing whitespace.                      *)
(***************************************************************************)
RECURSIVE TrimStart(_)
TrimStart(s) == IF s # <<>> /\ Head(s) = "SP" THEN TrimStart(Tail(s)) ELSE s

RECURSIVE TrimEnd(_)
TrimEnd(s) ==
    IF s # <<>> /\ s[Len(s)] = "SP" THEN TrimEnd(Take(s, Len(s) - 1)) ELSE s

Trim(s) == TrimEnd(TrimStart(s))

\* Variant of FindNewline: the index of the last newline (rfind).
FindLastNewline(buffer) ==
    IF \E i \in 1..Len(buffer) : buffer[i] = "NL"
    THEN CHOOSE i \in 1..Len(buffer) :
            buffer[i] = "NL" /\ \A j \in (i + 1)..Len(buffer) : buffer[j] # "NL"
    ELSE 0

\* buffer.find('\n'): the index of the first newline, 0 when there is none.
FindNewline(buffer) ==
    IF \E i \in 1..Len(buffer) : buffer[i] = "NL"
    THEN CHOOSE i \in 1..Len(buffer) :
            buffer[i] = "NL" /\ \A j \in 1..(i - 1) : buffer[j] # "NL"
    ELSE 0

(***************************************************************************)
(* serde_json::from_str::<ChatCompletionsChunk>: Ok with the list of       *)
(* choices, or Err.  A choice holds an optional delta content and an       *)
(* optional message content.  Whitespace between JSON tokens is skipped,   *)
(* every character but the closing quote belongs to a content string.      *)
(***************************************************************************)
NoChoice == [hasDelta |-> FALSE, delta |-> <<>>, hasMessage |-> FALSE, message |-> <<>>]
ParseErr == [ok |-> FALSE, choices |-> <<>>]

RECURSIVE ParseFrom(_, _, _, _, _)
ParseFrom(s, i, st, cur, acc) ==
    IF i > Len(s) THEN (IF st = "end" THEN [ok |-> TRUE, choices |-> acc] ELSE ParseErr)
    ELSE LET c == s[i] IN
      CASE st = "dstr" ->
             IF c = ";" THEN ParseFrom(s, i + 1, "afterD", cur, acc)
             ELSE ParseFrom(s, i + 1, st, [cur EXCEPT !.delta = @ \o <<c>>], acc)
        [] st = "mstr" ->
             IF c = ";" THEN ParseFrom(s, i + 1, "afterM", cur, acc)
             ELSE ParseFrom(s, i + 1, st, [cur EXCEPT !.message = @ \o <<c>>], acc)
        [] c = "SP" -> ParseFrom(s, i + 1, st, cur, acc)
        [] st = "start" /\ c = "{" -> ParseFrom(s, i + 1, "list", cur, acc)
        [] st = "list" /\ c = "(" -> ParseFrom(s, i + 1, "choice", NoChoice, acc)
        [] st = "list" /\ c = "}" -> ParseFrom(s, i + 1, "end", cur, acc)
        [] st = "choice" /\ c = "D" ->
             ParseFrom(s, i + 1, "dstr", [cur EXCEPT !.hasDelta = TRUE], acc)
        [] st \in {"choice", "afterD"} /\ c = "M" ->
             ParseFrom(s, i + 1, "mstr", [cur EXCEPT !.hasMessage = TRUE], acc)
        [] st \in {"choice", "afterD", "afterM"} /\ c = ")" ->
             ParseFrom(s, i + 1, "list", NoChoice, Append(acc, cur))
        [] OTHER -> ParseErr

from_str(data) == ParseFrom(data, 1, "start", NoChoice, <<>>)

(***************************************************************************)
(* The decoder's inner loop, commands.rs 483-513.  The decoder value is    *)
(*   buffer   the text buffer kept across chunks                           *)
(*   text     assistant_text                                               *)
(*   out      the fragments emitted as chat_stream_delta while this chunk  *)
(*            was processed, in emission order                             *)
(*   n        the number of app.emit calls made for this chunk             *)
(*   failed   app.emit returned Err and the handler returned through `?`   *)
(*   sawDone  history: a `[DONE]` payload has been read (the break at 491) *)
(* failAt names the emit call of this chunk that fails (0: none fails).    *)
(***************************************************************************)
\* line.starts_with("data: ") on the trimmed line: trim has removed the
\* prefix's own space when nothing follows it.
starts_with_data(line) == Len(line) >= 2 /\ line[1] = "DATA"

\* Lines 496 and 503: the delta content when present, else the message
\* content when present; a sequence of zero or one fragment.
ChoiceFragment(choice) ==
    IF choice.hasDelta THEN <<choice.delta>>
    ELSE IF choice.hasMessage THEN <<choice.message>>
    ELSE <<>>

\* Variant of PushAndEmit: the notification is queued ahead of the ones
\* already emitted for the chunk.
PushAndEmitAhead(d, frag, failAt) ==
    LET pushed == [d EXCEPT !.text = @ \o frag, !.n = @ + 1]
    IN  IF pushed.n = failAt THEN [pushed EXCEPT !.failed = TRUE]
        ELSE [pushed EXCEPT !.out = <<frag>> \o @]

\* Lines 497-502 and 504-509: push_str, then emit.
PushAndEmit(d, frag, failAt) ==
    LET pushed == [d EXCEPT !.text = @ \o frag, !.n = @ + 1]
    IN  IF pushed.n = failAt THEN [pushed EXCEPT !.failed = TRUE]
        ELSE [pushed EXCEPT !.out = Append(@, frag)]

RECURSIVE EmitChoices(_, _, _)
EmitChoices(choices, d, failAt) ==
    IF choices = <<>> THEN d
    ELSE LET frag == ChoiceFragment(Head(choices)) IN
         IF frag = <<>> THEN EmitChoices(Tail(choices), d, failAt)
         ELSE LET e == PushAndEmit(d, frag[1], failAt) IN
              IF e.failed THEN e ELSE EmitChoices(Tail(choices), e, failAt)

\* What the loop does on reading the payload [DONE]: `break` leaves the
\* inner loop only; the lines behind it stay in the buffer.
OnDone(next) == [next EXCEPT !.sawDone = TRUE]

\* Variant of DrainLines: a payload that does not parse is an error of the
\* handler (`?` on the parse result).
RECURSIVE DrainLinesStrict(_, _)
DrainLinesStrict(d, failAt) ==
    LET pos == FindNewline(d.buffer) IN
    IF pos = 0 THEN d
    ELSE LET line == Trim(Take(d.buffer, pos - 1))
             next == [d EXCEPT !.buffer = Drop(d.buffer, pos)]
         IN  IF ~starts_with_data(line) THEN DrainLinesStrict(next, failAt)
             ELSE LET data == Drop(line, 1) IN
                  IF data = <<"DONE">> THEN OnDone(next)
                  ELSE LET parsed == from_str(data) IN
                       IF ~parsed.ok THEN [next EXCEPT !.failed = TRUE]
                       ELSE LET e == EmitChoices(parsed.choices, next, failAt) IN
                            IF e.failed THEN e ELSE DrainLinesStrict(e, failAt)

RECURSIVE DrainLines(_, _)
DrainLines(d, failAt) ==
    LET pos == FindNewline(d.buffer) IN
    IF pos = 0 THEN d
    ELSE LET line == Trim(Take(d.buffer, pos - 1))
             next == [d EXCEPT !.buffer = Drop(d.buffer, pos)]
         IN  IF ~starts_with_data(line) THEN DrainLines(next, failAt)
             ELSE LET data == Drop(line, 1) IN
                  IF data = <<"DONE">> THEN OnDone(next)
                  ELSE LET parsed == from_str(data) IN
                       IF ~parsed.ok THEN DrainLines(next, failAt)
                       ELSE LET e == EmitChoices(parsed.choices, next, failAt) IN
                            IF e.failed THEN e ELSE DrainLines(e, failAt)

\* Lines 480-513 for one chunk: decode lossily, append, drain.
ProcessChunk(buffer, text, sawDone, chunk, failAt) ==
    DrainLines([buffer |-> buffer \o from_utf8_lossy(chunk), text |-> text,
                out |-> <<>>, n |-> 0, failed |-> FALSE, sawDone |-> sawDone],
               failAt)

\* Variant of IsBlank without the trim.
IsEmptyText(text) == text = <<>>

\* assistant_text.trim().is_empty()
IsBlank(text) == Trim(text) = <<>>

(***************************************************************************)
(* State.                                                                  *)
(*   chats, branches, messages   the tables of storage.rs 38-62, one       *)
(*       record per row (titles and names, which nothing reads, left out)  *)
(*   settings, providers         the settings payload and providers table  *)
(*   clock                       the last value Utc::now() returned        *)
(*   ids                         the ids minted so far (Uuid::new_v4 is    *)
(*       modelled as a fresh id)                                           *)
(*   left                        what the environment may still do: the    *)
(*       chat_send calls, the fork, edit, delete and regenerate calls,     *)
(*       the readings of the clock that repeat the previous reading, the   *)
(*       chats and the forked branches still to be made                    *)
(*   turns                       the chat_send calls that run at once: the *)
(*       locals of each call, its position, the events it emitted, the     *)
(*       request it sent, what it returned; a call that has returned       *)
(*       stays on record until the next call takes its place               *)
(*   wire, fed, dec              SpecDecode: a provider stream, the bytes  *)
(*       of it delivered so far, the decoder's locals                      *)
(*   blocks, composed            SpecCompose: the list handed to           *)
(*       compose_prompt, and the results of applying it                    *)
(*   ret                         SpecStore: what the last call of          *)
(*       chat_get_timeline, chat_regenerate or chat_create returned, kept  *)
(*       only where ret.on says the caller looks at it                     *)
(***************************************************************************)
VARIABLES chats, branches, messages, settings, providers, clock, ids, left,
          turns, wire, fed, dec, blocks, composed, ret

vars == <<chats, branches, messages, settings, providers, clock, ids, left,
          turns, wire, fed, dec, blocks, composed, ret>>
store == <<chats, branches, messages>>
config == <<settings, providers>>
decoder == <<wire, fed, dec>>
composer == <<blocks, composed>>

\* An id no chat and no branch carries: what a caller may pass unchecked.
UnknownId == Cardinality(ChatIdPool) + Cardinality(BranchIdPool) + 1

SystemPrompt == <<"S">>
UserContent == <<"h">>
EditContent == <<"e">>

\* storage.rs 176-178: ceil(chars / 3.7)
rough_token_count(text) == (Len(text) * 10 + 36) \div 37

(***************************************************************************)
(* storage::now: the wall clock does not go back; two calls may return     *)
(* the same value.  The values a call made at clock c may return when k    *)
(* repeated readings are left, and the repeated readings left after it.    *)
(***************************************************************************)
NowAfter(c, k) == {c + 1} \cup (IF k > 0 /\ c > 0 THEN {c} ELSE {})
TiesAfter(c, k, ts) == IF ts = c THEN k - 1 ELSE k

(***************************************************************************)
(* is_localhost_url, commands.rs 24-31.  Url::parse and host_str by table: *)
(* host_str keeps the brackets of an IPv6 literal.                         *)
(***************************************************************************)
Urls == {"http://localhost:11434/v1", "https://api.example.com", "http://[::1]:8080"}

host_str(raw) ==
    CASE raw = "http://localhost:11434/v1" -> <<"localhost">>
      [] raw = "http://127.0.0.1:1234" -> <<"127.0.0.1">>
      [] raw = "https://api.example.com" -> <<"api.example.com">>
      [] raw = "http://[::1]:8080" -> <<"[::1]">>
      [] OTHER -> <<>>

is_localhost_url(raw) ==
    /\ host_str(raw) # <<>>
    /\ host_str(raw)[1] \in {"localhost", "127.0.0.1", "::1"}

(***************************************************************************)
(* Reads of the store.                                                     *)
(***************************************************************************)
MessageIds == {m.id : m \in messages}
Message(id) == CHOOSE m \in messages : m.id = id
BranchIds == {b.id : b \in branches}
ChatIds == {c.id : c \in chats}

\* fetch_provider_row, commands.rs 64-81: the rows with that id (none: Err).
fetch_provider_row(provider_id) == {p \in providers : p.id = provider_id}

\* Variant of resolve_branch that orders the branches by created_at DESC.
resolve_branch_latest(chat_id, branch_id) ==
    IF branch_id # None THEN {branch_id}
    ELSE LET own == {b \in branches : b.chat_id = chat_id}
         IN  {b.id : b \in {x \in own : \A y \in own : x.created_at >= y.created_at}}

\* Variant of resolve_branch that answers a chat without branches with the
\* empty id instead of Err.
resolve_branch_or_default(chat_id, branch_id) ==
    IF branch_id # None THEN {branch_id}
    ELSE LET own == {b \in branches : b.chat_id = chat_id}
         IN  IF own = {} THEN {None}
             ELSE {b.id : b \in {x \in own : \A y \in own : x.created_at <= y.created_at}}

\* resolve_branch, commands.rs 353-364: the ids it may return; none: Err.
\* LIMIT 1 of rows ordered by created_at returns any of the earliest.
resolve_branch(chat_id, branch_id) ==
    IF branch_id # None THEN {branch_id}
    ELSE LET own == {b \in branches : b.chat_id = chat_id}
         IN  {b.id : b \in {x \in own : \A y \in own : x.created_at <= y.created_at}}

\* Variant of TimelineRows without the branch_id condition.
TimelineRowsOfChat(chat_id, branch_id) ==
    {m \in messages : m.chat_id = chat_id /\ ~m.deleted}

\* Variant of TimelineRows without the deleted = 0 condition.
TimelineRowsWithDeleted(chat_id, branch_id) ==
    {m \in messages : m.chat_id = chat_id /\ m.branch_id = branch_id}

\* The rows the query of chat_get_timeline selects, commands.rs 373-374.
TimelineRows(chat_id, branch_id) ==
    {m \in messages : m.chat_id = chat_id /\ m.branch_id = branch_id /\ ~m.deleted}

\* Variant of OrderedByCreatedAt: ORDER BY created_at DESC, the newest row
\* first.
RECURSIVE OrderedByCreatedAtDesc(_)
OrderedByCreatedAtDesc(rows) ==
    IF rows = {} THEN {<<>>}
    ELSE UNION {{<<m>> \o s : s \in OrderedByCreatedAtDesc(rows \ {m})} :
                m \in {x \in rows : \A y \in rows : x.created_at >= y.created_at}}

\* ORDER BY created_at ASC: every arrangement of the rows in which no row
\* precedes one with a smaller created_at.
RECURSIVE OrderedByCreatedAt(_)
OrderedByCreatedAt(rows) ==
    IF rows = {} THEN {<<>>}
    ELSE UNION {{<<m>> \o s : s \in OrderedByCreatedAt(rows \ {m})} :
                m \in {x \in rows : \A y \in rows : x.created_at <= y.created_at}}

\* chat_get_timeline, commands.rs 366-394, with Some(branch_id): the
\* results it may return.
chat_get_timeline(chat_id, branch_id) ==
    OrderedByCreatedAt(TimelineRows(chat_id, branch_id))

\* commands.rs 443-453: the system message, then one pair per message.
api_messages(timeline) ==
    <<[role |-> "system", content |-> SystemPrompt]>>
      \o [i \in 1..Len(timeline) |->
            [role |-> timeline[i].role, content |-> timeline[i].content]]

\* Variant of PolicyAllows with the provider's gate only.
PolicyAllowsProviderGate(full_local_only, full_local_mode, base_url) ==
    ~(full_local_only /\ ~is_localhost_url(base_url))

\* commands.rs 435-440: the two local-only gates; TRUE when both pass.
PolicyAllows(full_local_only, full_local_mode, base_url) ==
    /\ ~(full_local_only /\ ~is_localhost_url(base_url))
    /\ ~(full_local_mode /\ ~is_localhost_url(base_url))

(***************************************************************************)
(* Rows and events.                                                        *)
(***************************************************************************)
\* The INSERT of commands.rs 410-422.
UserRow(id, chat_id, branch_id, content, ts) ==
    [id |-> id, chat_id |-> chat_id, branch_id |-> branch_id, role |-> "user",
     content |-> content, token_count |-> rough_token_count(content),
     parent_id |-> None, deleted |-> FALSE, created_at |-> ts]

\* The INSERT of commands.rs 520-533 (and 579-592).
AssistantRow(id, chat_id, branch_id, content, parent_id, ts) ==
    [id |-> id, chat_id |-> chat_id, branch_id |-> branch_id, role |-> "assistant",
     content |-> content, token_count |-> rough_token_count(content),
     parent_id |-> parent_id, deleted |-> FALSE, created_at |-> ts]

\* Variants of StoreUser and StoreAssistant: the insert is put off.
StoreUserLater(row) == messages
StoreAssistantLater(row) == messages

\* conn.execute of commands.rs 410-422: the table after the insert.
StoreUser(row) == messages \cup {row}

\* conn.execute of commands.rs 520-533: the table after the insert.
StoreAssistant(row) == messages \cup {row}

\* The payload of commands.rs 498-501 and 505-508.
DeltaEvent(chat_id, branch_id, frag) ==
    [kind |-> "chat_stream_delta", chatId |-> chat_id, branchId |-> branch_id,
     delta |-> frag, messageId |-> None]

\* The payload of commands.rs 535-538.
DoneEvent(chat_id, branch_id, message_id) ==
    [kind |-> "chat_stream_done", chatId |-> chat_id, branchId |-> branch_id,
     delta |-> <<>>, messageId |-> message_id]

DeltaEvents(chat_id, branch_id, frags) ==
    [i \in 1..Len(frags) |-> DeltaEvent(chat_id, branch_id, frags[i])]

(***************************************************************************)
(* A chat_send call.  pc is the statement the call stands before:          *)
(*   idle        not called yet                                            *)
(*   stored      the user message is inserted (before line 424)            *)
(*   requesting  the request is sent, awaiting the response (line 469)     *)
(*   streaming   awaiting the next chunk (line 479)                        *)
(*   committed   the assistant message is inserted (before line 535)       *)
(*   notified    chat_stream_done is emitted (before line 541)             *)
(*   done        returned Ok(result);  failed  returned Err(error)         *)
(* Statements of one call run in program order; between two statements on  *)
(* the store the calls of other threads may run (the async command runs on *)
(* the runtime's worker threads, each statement is its own transaction).   *)
(***************************************************************************)
IdleTurn ==
    [pc |-> "idle", chat_id |-> None, branch_id |-> None, user_id |-> None,
     assistant_id |-> None, buffer |-> <<>>, assistant_text |-> <<>>,
     sawDone |-> FALSE, nchunks |-> 0, events |-> <<>>, request |-> <<>>,
     error |-> "", result |-> <<>>]

\* The call has not returned.
Running(turn) == turn.pc \notin {"idle", "done", "failed"}

\* Variant of Failed: the error is noted but the call does not return.
FailedKeepsRunning(turn, error) == [turn EXCEPT !.error = error]

\* return Err(error): the locals are dropped.  The code's errors are
\* strings; error holds the kind of the string returned:
\*   "NotFound"         query_row found no row (resolve_branch line 358,
\*                      fetch_provider_row line 68)
\*   "Configuration"    "No active provider/model selected in settings"
\*   "PolicyViolation"  the messages of lines 436 and 439
\*   "UpstreamError"    the reqwest error of lines 469-472 and 480
\*   "EmptyResponse"    "Provider returned empty streamed content"
\*   "Notification"     the error of app.emit, lines 502, 509 and 539
Failed(turn, error) ==
    [turn EXCEPT !.pc = "failed", !.error = error, !.buffer = <<>>,
                 !.assistant_text = <<>>, !.sawDone = FALSE, !.nchunks = 0]

\* The chunks a provider sends in Spec: whole lines.
LineA == <<"DATA", "{", "(", "D", "a", ";", ")", "}", "NL">>
LineBlank == <<"DATA", "{", "(", "D", "SP", ";", ")", "}", "NL">>
LineDone == <<"DATA", "DONE", "NL">>
LineH == <<"DATA", "{", "(", "D", "h", ";", ")", "}", "NL">>
ChunkSet == {LineA \o LineH, LineBlank, LineDone}

(***************************************************************************)
(* chat_create, commands.rs 308-332.                                       *)
(***************************************************************************)
\* What a store command hands back to its caller: Ok(timeline), or Err
\* (error # "").
Returned(op, chat_id, branch_opt, error, timeline) ==
    [op |-> op, chat_id |-> chat_id, branch_opt |-> branch_opt, error |-> error,
     timeline |-> timeline]

Returns(value) == ret' = IF ret.on THEN [ret EXCEPT !.value = <<value>>] ELSE ret

chat_create ==
    /\ ids.chat + 1 \in ChatIdPool
    /\ ids.branch + 1 \in BranchIdPool
    /\ left.chats > 0
    /\ \E t1 \in NowAfter(clock, left.ties) :
       \E t2 \in NowAfter(t1, TiesAfter(clock, left.ties, t1)) :
          /\ chats' = chats \cup {[id |-> ids.chat + 1, created_at |-> t1]}
          /\ branches' = branches \cup
                {[id |-> ids.branch + 1, chat_id |-> ids.chat + 1,
                  parent_message_id |-> None, created_at |-> t2]}
          /\ clock' = t2
          /\ left' = [left EXCEPT
                         !.chats = @ - 1,
                         !.ties = TiesAfter(t1, TiesAfter(clock, left.ties, t1), t2)]
    /\ ids' = [ids EXCEPT !.chat = @ + 1, !.branch = @ + 1]
    /\ UNCHANGED <<messages, config, turns, decoder, composer, ret>>

\* chat_create when the INSERT INTO branches of 326-330 returns Err: the
\* INSERT INTO chats of 320-324 was a statement of its own and stays.
chat_create_fails ==
    /\ ids.chat + 1 \in ChatIdPool
    /\ left.chats > 0
    /\ \E t1 \in NowAfter(clock, left.ties) :
          /\ chats' = chats \cup {[id |-> ids.chat + 1, created_at |-> t1]}
          /\ clock' = t1
          /\ left' = [left EXCEPT !.chats = @ - 1,
                                  !.ties = TiesAfter(clock, left.ties, t1)]
    /\ ids' = [ids EXCEPT !.chat = @ + 1]
    /\ Returns(Returned("chat_create", ids.chat + 1, None, "Storage", <<>>))
    /\ UNCHANGED <<branches, messages, config, turns, decoder, composer>>

\* The command chat_get_timeline, commands.rs 366-394: resolve_branch, then
\* the query; it writes nothing.
chat_get_timeline_command(chat_id, branch_opt) ==
    /\ ret.on
    /\ left.ops > 0
    /\ left' = [left EXCEPT !.ops = @ - 1]
    /\ IF resolve_branch(chat_id, branch_opt) = {}
       THEN Returns(Returned("chat_get_timeline", chat_id, branch_opt, "NotFound", <<>>))
       ELSE \E branch_id \in resolve_branch(chat_id, branch_opt) :
            \E tl \in chat_get_timeline(chat_id, branch_id) :
               Returns(Returned("chat_get_timeline", chat_id, branch_opt, "", tl))
    /\ UNCHANGED <<store, config, clock, ids, turns, decoder, composer>>

(***************************************************************************)
(* chat_fork_branch, commands.rs 597-626.  chat_fork_branch_copying is the *)
(* variant that also copies the fork point to the new branch.              *)
(***************************************************************************)
chat_fork_branch_copying(chat_id, parent_message_id) ==
    /\ ids.branch + 1 \in BranchIdPool
    /\ left.ops > 0
    /\ left.forks > 0
    /\ \E ts \in NowAfter(clock, left.ties) :
          /\ branches' = branches \cup
                {[id |-> ids.branch + 1, chat_id |-> chat_id,
                  parent_message_id |-> parent_message_id, created_at |-> ts]}
          /\ clock' = ts
          /\ left' = [left EXCEPT !.ops = @ - 1, !.forks = @ - 1,
                                  !.ties = TiesAfter(clock, left.ties, ts)]
    /\ messages' = messages \cup
          {[m EXCEPT !.id = ids.message + 1, !.branch_id = ids.branch + 1] :
             m \in {x \in messages : x.id = parent_message_id}}
    /\ ids' = [ids EXCEPT !.branch = @ + 1, !.message = @ + 1]
    /\ UNCHANGED <<chats, config, turns, decoder, composer, ret>>

chat_fork_branch(chat_id, parent_message_id) ==
    /\ ids.branch + 1 \in BranchIdPool
    /\ left.ops > 0
    /\ left.forks > 0
    /\ \E ts \in NowAfter(clock, left.ties) :
          /\ branches' = branches \cup
                {[id |-> ids.branch + 1, chat_id |-> chat_id,
                  parent_message_id |-> parent_message_id, created_at |-> ts]}
          /\ clock' = ts
          /\ left' = [left EXCEPT !.ops = @ - 1, !.forks = @ - 1,
                                  !.ties = TiesAfter(clock, left.ties, ts)]
    /\ ids' = [ids EXCEPT !.branch = @ + 1]
    /\ UNCHANGED <<chats, messages, config, turns, decoder, composer, ret>>

(***************************************************************************)
(* chat_edit_message, commands.rs 544-553.                                 *)
(***************************************************************************)
\* Variant of chat_edit_message that also stamps the row with the time of the
\* edit.
chat_edit_message_restamped(message_id, content) ==
    /\ left.ops > 0
    /\ left' = [left EXCEPT !.ops = @ - 1]
    /\ messages' = {IF m.id = message_id
                    THEN [m EXCEPT !.content = content,
                                   !.token_count = rough_token_count(content),
                                   !.created_at = clock + 1]
                    ELSE m : m \in messages}
    /\ clock' = clock + 1
    /\ UNCHANGED <<chats, branches, config, ids, turns, decoder, composer, ret>>

chat_edit_message(message_id, content) ==
    /\ left.ops > 0
    /\ left' = [left EXCEPT !.ops = @ - 1]
    /\ messages' = {IF m.id = message_id
                    THEN [m EXCEPT !.content = content,
                                   !.token_count = rough_token_count(content)]
                    ELSE m : m \in messages}
    /\ UNCHANGED <<chats, branches, config, clock, ids, turns, decoder, composer, ret>>

(***************************************************************************)
(* chat_delete_message, commands.rs 555-561.                               *)
(***************************************************************************)
\* Variant of chat_delete_message that removes the row.
chat_delete_message_hard(message_id) ==
    /\ left.ops > 0
    /\ left' = [left EXCEPT !.ops = @ - 1]
    /\ messages' = {m \in messages : m.id # message_id}
    /\ UNCHANGED <<chats, branches, config, clock, ids, turns, decoder, composer, ret>>

chat_delete_message(message_id) ==
    /\ left.ops > 0
    /\ left' = [left EXCEPT !.ops = @ - 1]
    /\ messages' = {IF m.id = message_id THEN [m EXCEPT !.deleted = TRUE] ELSE m :
                    m \in messages}
    /\ UNCHANGED <<chats, branches, config, clock, ids, turns, decoder, composer, ret>>

(***************************************************************************)
(* chat_regenerate, commands.rs 563-595.  The query of 568-576 returns any *)
(* of the latest non-deleted user rows of the branch; none: Err, nothing   *)
(* written.  LastRowsOfAnyRole is the variant of the query without the     *)
(* role = 'user' condition.                                                *)
(***************************************************************************)
LastRowsOfAnyRole(chat_id, branch_id) ==
    LET own == {m \in messages : /\ m.chat_id = chat_id /\ m.branch_id = branch_id
                                 /\ ~m.deleted}
    IN  {m \in own : \A o \in own : o.created_at <= m.created_at}

\* Variant of LastUserRows with ORDER BY created_at ASC.
FirstUserRows(chat_id, branch_id) ==
    LET own == {m \in messages : /\ m.chat_id = chat_id /\ m.branch_id = branch_id
                                 /\ m.role = "user" /\ ~m.deleted}
    IN  {m \in own : \A o \in own : o.created_at >= m.created_at}

LastUserRows(chat_id, branch_id) ==
    LET own == {m \in messages : /\ m.chat_id = chat_id /\ m.branch_id = branch_id
                                 /\ m.role = "user" /\ ~m.deleted}
    IN  {m \in own : \A o \in own : o.created_at <= m.created_at}

\* format!("[Regenerated] {}", last_user_content)
Regenerated(content) ==
    <<"[", "R", "e", "g", "e", "n", "e", "r", "a", "t", "e", "d", "]", "SP">> \o content

\* Variant of chat_regenerate that answers a branch without a user message
\* with a reply to nothing instead of failing.
chat_regenerate_or_empty(chat_id, branch_opt) ==
    /\ left.ops > 0
    /\ \E branch_id \in resolve_branch(chat_id, branch_opt) \cup
                        (IF resolve_branch(chat_id, branch_opt) = {} THEN {None} ELSE {}) :
          IF resolve_branch(chat_id, branch_opt) = {}
          THEN /\ Returns(Returned("chat_regenerate", chat_id, branch_opt, "NotFound", <<>>))
               /\ UNCHANGED <<messages, clock, left, ids>>
          ELSE \E last \in LastUserRows(chat_id, branch_id) \cup
                           (IF LastUserRows(chat_id, branch_id) = {}
                            THEN {[id |-> None, content |-> <<>>]} ELSE {}) :
               \E ts \in NowAfter(clock, left.ties) :
                  /\ messages' = messages \cup
                        {AssistantRow(ids.message + 1, chat_id, branch_id,
                                      Regenerated(last.content), last.id, ts)}
                  /\ clock' = ts
                  /\ left' = [left EXCEPT !.ops = @ - 1,
                                          !.ties = TiesAfter(clock, left.ties, ts)]
                  /\ ids' = [ids EXCEPT !.message = @ + 1]
                  /\ \E tl \in chat_get_timeline(chat_id, branch_id)' :
                        Returns(Returned("chat_regenerate", chat_id, branch_opt, "", tl))
    /\ UNCHANGED <<chats, branches, config, turns, decoder, composer>>

\* A call that fails (resolve_branch at 566, or the query of 568-576 finding
\* no row) returns Err having written nothing.
chat_regenerate(chat_id, branch_opt) ==
    /\ left.ops > 0
    /\ \E branch_id \in resolve_branch(chat_id, branch_opt) \cup
                        (IF resolve_branch(chat_id, branch_opt) = {} THEN {None} ELSE {}) :
          IF \/ resolve_branch(chat_id, branch_opt) = {}
             \/ LastUserRows(chat_id, branch_id) = {}
          THEN /\ Returns(Returned("chat_regenerate", chat_id, branch_opt, "NotFound", <<>>))
               /\ UNCHANGED <<messages, clock, left, ids>>
          ELSE \E last \in LastUserRows(chat_id, branch_id) :
               \E ts \in NowAfter(clock, left.ties) :
                  /\ messages' = messages \cup
                        {AssistantRow(ids.message + 1, chat_id, branch_id,
                                      Regenerated(last.content), last.id, ts)}
                  /\ clock' = ts
                  /\ left' = [left EXCEPT !.ops = @ - 1,
                                          !.ties = TiesAfter(clock, left.ties, ts)]
                  /\ ids' = [ids EXCEPT !.message = @ + 1]
                  /\ \E tl \in chat_get_timeline(chat_id, branch_id)' :
                        Returns(Returned("chat_regenerate", chat_id, branch_opt, "", tl))
    /\ UNCHANGED <<chats, branches, config, turns, decoder, composer>>

(***************************************************************************)
(* chat_send, commands.rs 396-542, one action per stretch of statements    *)
(* between two points where other calls may run.                           *)
(***************************************************************************)
\* Lines 402-422: resolve the branch, mint both ids, insert the user row.
SendStart(t, chat_id, branch_opt) ==
    /\ ~Running(turns[t])
    /\ \A u \in 1..(t - 1) : Running(turns[u])
    /\ left.sends > 0
    /\ IF resolve_branch(chat_id, branch_opt) = {}
       THEN /\ turns' = [turns EXCEPT ![t] =
                            Failed([IdleTurn EXCEPT !.chat_id = chat_id], "NotFound")]
            /\ left' = [left EXCEPT !.sends = @ - 1]
            /\ UNCHANGED <<messages, clock, ids>>
       ELSE \E branch_id \in resolve_branch(chat_id, branch_opt) :
            \E ts \in NowAfter(clock, left.ties) :
               /\ messages' = StoreUser(UserRow(ids.message + 1, chat_id, branch_id,
                                                UserContent, ts))
               /\ clock' = ts
               /\ left' = [left EXCEPT !.sends = @ - 1,
                                       !.ties = TiesAfter(clock, left.ties, ts)]
               /\ ids' = [ids EXCEPT !.message = @ + 2]
               /\ turns' = [turns EXCEPT ![t] =
                     [IdleTurn EXCEPT !.pc = "stored", !.chat_id = chat_id,
                               !.branch_id = branch_id,
                               !.user_id = ids.message + 1,
                               !.assistant_id = ids.message + 2]]
    /\ UNCHANGED <<chats, branches, config, decoder, composer, ret>>

\* The request of lines 455-468, with the values the gate read.
Request(provider, model, full_local_mode, timeline) ==
    [base_url |-> provider.base_url, model |-> model,
     full_local_only |-> provider.full_local_only,
     full_local_mode |-> full_local_mode,
     stream |-> TRUE, messages |-> api_messages(timeline)]

\* Lines 424-468: settings, provider row, the gates, the timeline, the
\* request; the outcomes of the stretch for a call in `turn`.
\* Variant of BuildOutcomes that requires the active provider only and falls
\* back to the first known model.
BuildOutcomesProviderOnly(turn) ==
    IF settings.active_provider_id = <<>>
    THEN {Failed(turn, "Configuration")}
    ELSE IF fetch_provider_row(settings.active_provider_id[1]) = {}
    THEN {Failed(turn, "NotFound")}
    ELSE LET provider == CHOOSE p \in fetch_provider_row(settings.active_provider_id[1]) : TRUE
             model == IF settings.active_model = <<>> THEN "m1"
                      ELSE settings.active_model[1]
         IN  IF ~PolicyAllows(provider.full_local_only, settings.full_local_mode,
                              provider.base_url)
             THEN {Failed(turn, "PolicyViolation")}
             ELSE {[turn EXCEPT !.pc = "requesting",
                                !.request = <<Request(provider, model,
                                                      settings.full_local_mode, tl)>>] :
                   tl \in chat_get_timeline(turn.chat_id, turn.branch_id)}

BuildOutcomes(turn) ==
    IF settings.active_provider_id = <<>> \/ settings.active_model = <<>>
    THEN {Failed(turn, "Configuration")}
    ELSE IF fetch_provider_row(settings.active_provider_id[1]) = {}
    THEN {Failed(turn, "NotFound")}
    ELSE LET provider == CHOOSE p \in fetch_provider_row(settings.active_provider_id[1]) : TRUE
         IN  IF ~PolicyAllows(provider.full_local_only, settings.full_local_mode,
                              provider.base_url)
             THEN {Failed(turn, "PolicyViolation")}
             ELSE {[turn EXCEPT !.pc = "requesting",
                                !.request = <<Request(provider, settings.active_model[1],
                                                      settings.full_local_mode, tl)>>] :
                   tl \in chat_get_timeline(turn.chat_id, turn.branch_id)}

SendBuild(t) ==
    /\ turns[t].pc = "stored"
    /\ \E next \in BuildOutcomes(turns[t]) : turns' = [turns EXCEPT ![t] = next]
    /\ UNCHANGED <<store, config, clock, ids, left, decoder, composer, ret>>

\* Variant of SendResponse that stores the failure as the assistant's reply.
SendResponseStoresFailure(t, outcome) ==
    /\ turns[t].pc = "requesting"
    /\ turns' = [turns EXCEPT ![t] =
                    IF outcome = "2xx" THEN [@ EXCEPT !.pc = "streaming"]
                    ELSE Failed(@, "UpstreamError")]
    /\ messages' = IF outcome = "2xx" THEN messages
                   ELSE StoreAssistant(
                          AssistantRow(turns[t].assistant_id, turns[t].chat_id,
                                       turns[t].branch_id, <<"e">>,
                                       turns[t].user_id, clock + 1))
    /\ clock' = IF outcome = "2xx" THEN clock ELSE clock + 1
    /\ UNCHANGED <<chats, branches, config, ids, left, decoder, composer, ret>>

\* Variant of SendResponse that takes the user message back on failure.
SendResponseRollback(t, outcome) ==
    /\ turns[t].pc = "requesting"
    /\ turns' = [turns EXCEPT ![t] =
                    IF outcome = "2xx" THEN [@ EXCEPT !.pc = "streaming"]
                    ELSE Failed(@, "UpstreamError")]
    /\ messages' = IF outcome = "2xx" THEN messages
                   ELSE {m \in messages : m.id # turns[t].user_id}
    /\ UNCHANGED <<chats, branches, config, clock, ids, left, decoder, composer, ret>>

\* Lines 469-472: the response arrives with a 2xx status, or send() fails,
\* or error_for_status() turns a non-2xx status into Err.
SendResponse(t, outcome) ==
    /\ turns[t].pc = "requesting"
    /\ turns' = [turns EXCEPT ![t] =
                    IF outcome = "2xx" THEN [@ EXCEPT !.pc = "streaming"]
                    ELSE Failed(@, "UpstreamError")]
    /\ UNCHANGED <<store, config, clock, ids, left, decoder, composer, ret>>

\* Lines 479-514, one pass of the outer loop: a chunk arrives and is drained.
AfterChunk(turn, d) ==
    LET emitted == turn.events \o DeltaEvents(turn.chat_id, turn.branch_id, d.out)
    IN  IF d.failed
        THEN Failed([turn EXCEPT !.events = emitted], "Notification")
        ELSE [turn EXCEPT !.buffer = d.buffer, !.assistant_text = d.text,
                          !.sawDone = d.sawDone, !.nchunks = @ + 1,
                          !.events = emitted]

SendChunk(t, chunk) ==
    /\ turns[t].pc = "streaming"
    /\ LET whole == ProcessChunk(turns[t].buffer, turns[t].assistant_text,
                                 turns[t].sawDone, chunk, 0)
       IN  \E failAt \in 0..whole.n :
              turns' = [turns EXCEPT ![t] =
                 AfterChunk(@, ProcessChunk(@.buffer, @.assistant_text, @.sawDone,
                                            chunk, failAt))]
    /\ UNCHANGED <<store, config, clock, ids, left, decoder, composer, ret>>

\* Variant of SendStreamError that keeps what had arrived: the partial text
\* is stored as the assistant message.
SendStreamErrorKeepsPartial(t) ==
    /\ turns[t].pc = "streaming"
    /\ turns' = [turns EXCEPT ![t] = Failed(@, "UpstreamError")]
    /\ messages' = IF turns[t].assistant_text = <<>> THEN messages
                   ELSE StoreAssistant(
                          AssistantRow(turns[t].assistant_id, turns[t].chat_id,
                                       turns[t].branch_id, turns[t].assistant_text,
                                       turns[t].user_id, clock + 1))
    /\ clock' = IF turns[t].assistant_text = <<>> THEN clock ELSE clock + 1
    /\ UNCHANGED <<chats, branches, config, ids, left, decoder, composer, ret>>

\* Line 480: the transport fails while the body is read.
SendStreamError(t) ==
    /\ turns[t].pc = "streaming"
    /\ turns' = [turns EXCEPT ![t] = Failed(@, "UpstreamError")]
    /\ UNCHANGED <<store, config, clock, ids, left, decoder, composer, ret>>

\* Variant of SendStreamEnd in which the accumulated text is one buffer of
\* the process instead of a local of the call: the row holds what every
\* call that is streaming has decoded so far.
SendStreamEndSharedText(t) ==
    /\ turns[t].pc = "streaming"
    /\ LET shared == Flatten([u \in Slots |->
                         IF turns[u].pc = "streaming" THEN turns[u].assistant_text
                         ELSE <<>>])
       IN  IF IsBlank(shared)
           THEN /\ turns' = [turns EXCEPT ![t] = Failed(@, "EmptyResponse")]
                /\ UNCHANGED <<messages, clock, left>>
           ELSE \E ts \in NowAfter(clock, left.ties) :
                   /\ messages' = StoreAssistant(
                         AssistantRow(turns[t].assistant_id, turns[t].chat_id,
                                      turns[t].branch_id, shared,
                                      turns[t].user_id, ts))
                   /\ clock' = ts
                   /\ left' = [left EXCEPT !.ties = TiesAfter(clock, left.ties, ts)]
                   /\ turns' = [turns EXCEPT ![t] = [@ EXCEPT !.pc = "committed"]]
    /\ UNCHANGED <<chats, branches, config, ids, decoder, composer, ret>>

\* Lines 516-533: the stream has ended; the blank check, then the insert.
SendStreamEnd(t) ==
    /\ turns[t].pc = "streaming"
    /\ IF IsBlank(turns[t].assistant_text)
       THEN /\ turns' = [turns EXCEPT ![t] = Failed(@, "EmptyResponse")]
            /\ UNCHANGED <<messages, clock, left>>
       ELSE \E ts \in NowAfter(clock, left.ties) :
               /\ messages' = StoreAssistant(
                     AssistantRow(turns[t].assistant_id, turns[t].chat_id,
                                  turns[t].branch_id, turns[t].assistant_text,
                                  turns[t].user_id, ts))
               /\ clock' = ts
               /\ left' = [left EXCEPT !.ties = TiesAfter(clock, left.ties, ts)]
               /\ turns' = [turns EXCEPT ![t] = [@ EXCEPT !.pc = "committed"]]
    /\ UNCHANGED <<chats, branches, config, ids, decoder, composer, ret>>

\* Lines 535-539: emit chat_stream_done; the emit may fail.
SendEmitDone(t, delivered) ==
    /\ turns[t].pc = "committed"
    /\ turns' = [turns EXCEPT ![t] =
                    IF delivered
                    THEN [@ EXCEPT !.pc = "notified",
                                   !.events = Append(@, DoneEvent(turns[t].chat_id,
                                                                  turns[t].branch_id,
                                                                  turns[t].assistant_id))]
                    ELSE Failed(@, "Notification")]
    /\ UNCHANGED <<store, config, clock, ids, left, decoder, composer, ret>>

\* Variant of SendReturn: the timeline read for the context (line 442) is
\* returned instead of a fresh read.
SendReturnContextTimeline(t) ==
    /\ turns[t].pc = "notified"
    /\ \E tl \in OrderedByCreatedAt({m \in TimelineRows(turns[t].chat_id,
                                                        turns[t].branch_id) :
                                      m.id # turns[t].assistant_id}) :
          turns' = [turns EXCEPT ![t] =
                       [@ EXCEPT !.pc = "done", !.result = tl, !.buffer = <<>>,
                                 !.assistant_text = <<>>, !.sawDone = FALSE,
                                 !.nchunks = 0]]
    /\ UNCHANGED <<store, config, clock, ids, left, decoder, composer, ret>>

\* Line 541: the refreshed timeline is the result.
SendReturn(t) ==
    /\ turns[t].pc = "notified"
    /\ \E tl \in chat_get_timeline(turns[t].chat_id, turns[t].branch_id) :
          turns' = [turns EXCEPT ![t] =
                       [@ EXCEPT !.pc = "done", !.result = tl, !.buffer = <<>>,
                                 !.assistant_text = <<>>, !.sawDone = FALSE,
                                 !.nchunks = 0]]
    /\ UNCHANGED <<store, config, clock, ids, left, decoder, composer, ret>>

(***************************************************************************)
(* Settings and providers.                                                 *)
(***************************************************************************)
\* AppSettings::default, models.rs 18-31 (the fields chat_send reads).
DefaultSettings ==
    [active_provider_id |-> <<>>, active_model |-> <<>>, full_local_mode |-> FALSE]

ProviderIds == {"p1"}
ModelIds == {"m1"}

\* provider_upsert, commands.rs 185-216.
provider_upsert(id, base_url, full_local_only) ==
    /\ ~(full_local_only /\ ~is_localhost_url(base_url))
    /\ providers' = {p \in providers : p.id # id} \cup
          {[id |-> id, base_url |-> base_url, full_local_only |-> full_local_only]}
    /\ UNCHANGED <<store, settings, clock, ids, left, turns, decoder, composer, ret>>

\* provider_set_active, commands.rs 297-306.
provider_set_active(provider_id, model_id) ==
    /\ fetch_provider_row(provider_id) # {}
    /\ settings' = [settings EXCEPT !.active_provider_id = <<provider_id>>,
                                    !.active_model = <<model_id>>]
    /\ UNCHANGED <<store, providers, clock, ids, left, turns, decoder, composer, ret>>

\* settings_update, commands.rs 137-175.  A field of the patch is absent
\* (<<>>), null (<<"null">>) or a value (<<"is", v>>).
PatchOption(old, field) ==
    IF field = <<>> THEN old
    ELSE IF field = <<"null">> THEN <<>>
    ELSE <<field[2]>>

Patches ==
    [fullLocalMode : {<<>>, <<"is", TRUE>>, <<"is", FALSE>>},
     activeProviderId : {<<>>, <<"null">>} \cup {<<"is", p>> : p \in ProviderIds},
     activeModel : {<<>>, <<"null">>} \cup {<<"is", m>> : m \in ModelIds}]

settings_update(patch) ==
    /\ settings' =
          [full_local_mode |-> IF patch.fullLocalMode = <<>> THEN settings.full_local_mode
                               ELSE patch.fullLocalMode[2],
           active_provider_id |-> PatchOption(settings.active_provider_id,
                                              patch.activeProviderId),
           active_model |-> PatchOption(settings.active_model, patch.activeModel)]
    /\ UNCHANGED <<store, providers, clock, ids, left, turns, decoder, composer, ret>>

\* settings_reset_defaults, commands.rs 177-183.
settings_reset_defaults ==
    /\ settings' = DefaultSettings
    /\ UNCHANGED <<store, providers, clock, ids, left, turns, decoder, composer, ret>>

(***************************************************************************)
(* Spec: the timeline store and the turns.  The database file outlives the *)
(* process: Init is the state AppState::new leaves on a database without   *)
(* chats whose settings and providers an earlier run wrote through         *)
(* provider_upsert, provider_set_active and settings_update.  One          *)
(* chat_send runs at a time, callers pass the ids of rows, no two readings *)
(* of the clock are equal, and a response body arrives in one chunk of     *)
(* whole lines or is empty.                                                *)
(***************************************************************************)
NoDecoder ==
    /\ wire = <<>>
    /\ fed = 0
    /\ dec = [buffer |-> <<>>, text |-> <<>>, sawDone |-> FALSE, events |-> <<>>,
              ended |-> FALSE]

\* No caller looks at what the store commands return.
NoReturn == ret = [on |-> FALSE, value |-> <<>>]

NoComposer ==
    /\ blocks = <<>>
    /\ composed = <<>>

EmptyStore ==
    /\ chats = {}
    /\ branches = {}
    /\ messages = {}
    /\ clock = 0
    /\ ids = [chat |-> 0, branch |-> 0, message |-> 0]
    /\ turns = [t \in Slots |-> IdleTurn]

RemoteProvider ==
    [id |-> "p1", base_url |-> "https://api.example.com", full_local_only |-> FALSE]
ActiveSettings(full_local_mode) ==
    [active_provider_id |-> <<"p1">>, active_model |-> <<"m1">>,
     full_local_mode |-> full_local_mode]

Init ==
    /\ EmptyStore
    /\ NoComposer
    /\ NoReturn
    /\ NoDecoder
    /\ left = [sends |-> MaxTurns, ops |-> MaxOps, ties |-> 0,
               chats |-> 1, forks |-> 1]
    /\ \/ settings = ActiveSettings(FALSE) /\ providers = {RemoteProvider}
       \/ settings = ActiveSettings(TRUE) /\ providers = {RemoteProvider}
       \/ settings = DefaultSettings /\ providers = {RemoteProvider}
       \/ settings = ActiveSettings(FALSE) /\ providers = {}

OneAtATime == {1}

Next ==
    \/ chat_create
    \/ \E c \in ChatIds, m \in MessageIds : chat_fork_branch(c, m)
    \/ \E m \in MessageIds : chat_edit_message(m, EditContent)
    \/ \E m \in MessageIds : chat_delete_message(m)
    \/ \E c \in ChatIds, b \in {None} \cup BranchIds : chat_regenerate(c, b)
    \/ \E t \in OneAtATime, c \in ChatIds, b \in {None} \cup BranchIds :
          SendStart(t, c, b)
    \/ \E t \in OneAtATime : SendBuild(t)
    \/ \E t \in OneAtATime, o \in {"2xx", "status", "transport"} : SendResponse(t, o)
    \/ \E t \in OneAtATime, chunk \in ChunkSet :
          turns[t].nchunks = 0 /\ SendChunk(t, chunk)
    \/ \E t \in OneAtATime : SendStreamError(t)
    \/ \E t \in OneAtATime : SendStreamEnd(t)
    \/ \E t \in OneAtATime, ok \in BOOLEAN : SendEmitDone(t, ok)
    \/ \E t \in OneAtATime : SendReturn(t)

Spec == Init /\ [][Next]_vars

(***************************************************************************)
(* SpecSolo: as Spec with a usable configuration, but fork, edit, delete   *)
(* and regenerate are called only while no chat_send is running: nothing   *)
(* else touches the store during a turn.                                   *)
(***************************************************************************)
InitSolo ==
    /\ EmptyStore
    /\ NoComposer
    /\ NoReturn
    /\ NoDecoder
    /\ left = [sends |-> MaxTurns, ops |-> MaxOps, ties |-> 0,
               chats |-> 1, forks |-> 1]
    /\ settings = ActiveSettings(FALSE)
    /\ providers = {RemoteProvider}

NextSolo ==
    \/ chat_create
    \/ \E c \in ChatIds, m \in MessageIds :
          ~Running(turns[1]) /\ chat_fork_branch(c, m)
    \/ \E m \in MessageIds : ~Running(turns[1]) /\ chat_edit_message(m, EditContent)
    \/ \E m \in MessageIds : ~Running(turns[1]) /\ chat_delete_message(m)
    \/ \E c \in ChatIds, b \in {None} \cup BranchIds :
          ~Running(turns[1]) /\ chat_regenerate(c, b)
    \/ \E c \in ChatIds, b \in {None} \cup BranchIds : SendStart(1, c, b)
    \/ SendBuild(1)
    \/ \E o \in {"2xx", "status", "transport"} : SendResponse(1, o)
    \/ \E chunk \in ChunkSet : turns[1].nchunks = 0 /\ SendChunk(1, chunk)
    \/ SendStreamError(1)
    \/ SendStreamEnd(1)
    \/ \E ok \in BOOLEAN : SendEmitDone(1, ok)
    \/ SendReturn(1)

SpecSolo == InitSolo /\ [][NextSolo]_vars

(***************************************************************************)
(* SpecReplies: the store commands between chat_send calls that the        *)
(* provider answers, where the caller looks at what chat_regenerate and    *)
(* chat_get_timeline return.                                               *)
(***************************************************************************)
InitReplies ==
    /\ EmptyStore
    /\ NoComposer
    /\ NoDecoder
    /\ ret = [on |-> TRUE, value |-> <<>>]
    /\ left = [sends |-> MaxTurns, ops |-> MaxOps, ties |-> 0, chats |-> 1, forks |-> 1]
    /\ settings = ActiveSettings(FALSE)
    /\ providers = {RemoteProvider}

NextReplies ==
    \/ chat_create
    \/ \E c \in ChatIds, m \in MessageIds :
          ~Running(turns[1]) /\ chat_fork_branch(c, m)
    \/ \E m \in MessageIds : ~Running(turns[1]) /\ chat_edit_message(m, EditContent)
    \/ \E m \in MessageIds : ~Running(turns[1]) /\ chat_delete_message(m)
    \/ \E c \in ChatIds, b \in {None} \cup BranchIds :
          ~Running(turns[1]) /\ chat_regenerate(c, b)
    \/ \E c \in ChatIds, b \in {None} \cup BranchIds :
          ~Running(turns[1]) /\ chat_get_timeline_command(c, b)
    \/ \E c \in ChatIds, b \in {None} \cup BranchIds : SendStart(1, c, b)
    \/ SendBuild(1)
    \/ SendResponse(1, "2xx")
    \/ turns[1].nchunks = 0 /\ SendChunk(1, LineA)
    \/ SendStreamEnd(1)
    \/ SendEmitDone(1, TRUE)
    \/ SendReturn(1)

SpecReplies == InitReplies /\ [][NextReplies]_vars

(***************************************************************************)
(* SpecStore: the store commands with the ids a caller may pass, which     *)
(* nothing validates: the id of no chat, of no branch, of no message.  The *)
(* caller looks at what the commands return.  One chat, whose chat_create  *)
(* may fail between its two inserts, and one chat_send, with the other     *)
(* commands before and after it.                                           *)
(***************************************************************************)
AnyChat == ChatIds \cup {UnknownId}
AnyBranch == BranchIds \cup {None, UnknownId}
AnyMessage == MessageIds \cup {UnknownId}

InitStore ==
    /\ EmptyStore
    /\ NoComposer
    /\ NoDecoder
    /\ ret = [on |-> TRUE, value |-> <<>>]
    /\ left = [sends |-> 1, ops |-> MaxOps, ties |-> 0, chats |-> 1, forks |-> 1]
    /\ settings = ActiveSettings(FALSE)
    /\ providers = {RemoteProvider}

NextStore ==
    \/ chat_create
    \/ chat_create_fails
    \/ \E c \in AnyChat, m \in AnyMessage :
          ~Running(turns[1]) /\ chat_fork_branch(c, m)
    \/ \E m \in AnyMessage : ~Running(turns[1]) /\ chat_edit_message(m, EditContent)
    \/ \E m \in AnyMessage : ~Running(turns[1]) /\ chat_delete_message(m)
    \/ \E c \in AnyChat, b \in AnyBranch :
          ~Running(turns[1]) /\ chat_regenerate(c, b)
    \/ \E c \in AnyChat, b \in AnyBranch :
          ~Running(turns[1]) /\ chat_get_timeline_command(c, b)
    \/ \E c \in AnyChat, b \in AnyBranch : SendStart(1, c, b)
    \/ SendBuild(1)
    \/ \E o \in {"2xx", "status"} : SendResponse(1, o)
    \/ turns[1].nchunks = 0 /\ SendChunk(1, LineA)
    \/ SendStreamEnd(1)
    \/ \E ok \in BOOLEAN : SendEmitDone(1, ok)
    \/ SendReturn(1)

SpecStore == InitStore /\ [][NextStore]_vars

(***************************************************************************)
(* SpecBranches: the chats and branches tables under chat_create, which    *)
(* may fail between its two inserts, and chat_fork_branch with the ids a   *)
(* caller may pass; the clock may repeat a reading.                        *)
(***************************************************************************)
InitBranches ==
    /\ EmptyStore
    /\ NoComposer
    /\ NoDecoder
    /\ ret = [on |-> TRUE, value |-> <<>>]
    /\ left = [sends |-> 0, ops |-> MaxOps, ties |-> MaxTies,
               chats |-> MaxChats, forks |-> MaxOps]
    /\ settings = ActiveSettings(FALSE)
    /\ providers = {RemoteProvider}

NextBranches ==
    \/ chat_create
    \/ chat_create_fails
    \/ \E c \in AnyChat, m \in AnyMessage : chat_fork_branch(c, m)

SpecBranches == InitBranches /\ [][NextBranches]_vars

(***************************************************************************)
(* SpecGate: the settings and provider commands, and one chat_send on the  *)
(* chat's root branch up to the request, on a fresh database.              *)
(***************************************************************************)
InitGate ==
    /\ EmptyStore
    /\ NoComposer
    /\ NoReturn
    /\ NoDecoder
    /\ left = [sends |-> 1, ops |-> 0, ties |-> 0,
               chats |-> 1, forks |-> 1]
    /\ settings = DefaultSettings
    /\ providers = {}

NextGate ==
    \/ chat_create
    \/ \E p \in ProviderIds, u \in Urls, f \in BOOLEAN : provider_upsert(p, u, f)
    \/ \E p \in ProviderIds, m \in ModelIds : provider_set_active(p, m)
    \/ \E patch \in Patches : settings_update(patch)
    \/ settings_reset_defaults
    \/ \E c \in ChatIds : SendStart(1, c, None)
    \/ SendBuild(1)

SpecGate == InitGate /\ [][NextGate]_vars

(***************************************************************************)
(* SpecDecode: the decoder alone.  Init draws a provider stream of up to   *)
(* MaxLines lines; each step delivers the next bytes of it as one chunk,   *)
(* cut anywhere, to the loop of commands.rs 479-514; no emit fails.        *)
(***************************************************************************)
LineUtf == <<"DATA", "{", "(", "D", "L", "C", ";", ")", "}", "NL">>
LineMessage == <<"DATA", "{", "(", "M", "a", ";", ")", "}", "NL">>
LineEmptyDelta == <<"DATA", "{", "(", "D", ";", "M", "a", ";", ")", "}", "NL">>
LineComment == <<"#", "NL">>
LineMalformed == <<"DATA", "{", "(", "D", "a", "NL">>
LineUnterminated == <<"DATA", "{", "(", "D", "h", ";", ")", "}">>
StreamLines ==
    {LineA, LineH, LineDone, LineUtf, LineMessage, LineEmptyDelta, LineComment,
     LineMalformed, LineUnterminated}

Streams == {Flatten(ls) : ls \in UNION {[1..n -> StreamLines] : n \in 0..MaxLines}}

InitDecode ==
    /\ EmptyStore
    /\ NoComposer
    /\ NoReturn
    /\ left = [sends |-> 0, ops |-> 0, ties |-> 0,
               chats |-> 1, forks |-> 1]
    /\ settings = DefaultSettings
    /\ providers = {}
    /\ wire \in Streams
    /\ fed = 0
    /\ dec = [buffer |-> <<>>, text |-> <<>>, sawDone |-> FALSE, events |-> <<>>,
              ended |-> FALSE]

\* stream.next() yields the next n bytes.
DecodeChunk(n) ==
    /\ fed + n <= Len(wire)
    /\ LET d == ProcessChunk(dec.buffer, dec.text, dec.sawDone,
                             SubSeq(wire, fed + 1, fed + n), 0)
       IN  dec' = [buffer |-> d.buffer, text |-> d.text, sawDone |-> d.sawDone,
                   events |-> dec.events \o d.out, ended |-> FALSE]
    /\ fed' = fed + n
    /\ UNCHANGED <<store, config, clock, ids, left, turns, wire, composer, ret>>

\* Variant of DecodeEnd that flushes the buffer at the end of the stream: what
\* is left in it is processed as a last line.
DecodeEndFlushes ==
    /\ fed = Len(wire)
    /\ ~dec.ended
    /\ LET d == ProcessChunk(dec.buffer, dec.text, dec.sawDone, <<"NL">>, 0)
       IN  dec' = [buffer |-> d.buffer, text |-> d.text, sawDone |-> d.sawDone,
                   events |-> dec.events \o d.out, ended |-> TRUE]
    /\ UNCHANGED <<store, config, clock, ids, left, turns, wire, fed, composer, ret>>

\* stream.next() yields None: the loop of line 479 ends.
DecodeEnd ==
    /\ fed = Len(wire)
    /\ ~dec.ended
    /\ dec' = [dec EXCEPT !.ended = TRUE]
    /\ UNCHANGED <<store, config, clock, ids, left, turns, wire, fed, composer, ret>>

NextDecode ==
    \/ \E n \in 1..(Len(wire) - fed) : DecodeChunk(n)
    \/ DecodeEnd

SpecDecode == InitDecode /\ [][NextDecode]_vars

(***************************************************************************)
(* SpecLines: the decoder on a well-formed stream: up to MaxFrags data     *)
(* lines, each with one choice carrying a non-empty delta content, then    *)
(* the line `data: [DONE]`.  A chunk ends anywhere but between the bytes   *)
(* of one character.                                                       *)
(***************************************************************************)
LineHe == <<"DATA", "{", "(", "D", "h", "e", ";", ")", "}", "NL">>
DataLines == {LineA, LineHe, LineUtf, LineBlank}

WellFormedStreams ==
    {Flatten(ls) \o LineDone : ls \in UNION {[1..n -> DataLines] : n \in 0..MaxFrags}}

InitLines ==
    /\ EmptyStore
    /\ NoComposer
    /\ NoReturn
    /\ left = [sends |-> 0, ops |-> 0, ties |-> 0,
               chats |-> 1, forks |-> 1]
    /\ settings = DefaultSettings
    /\ providers = {}
    /\ wire \in WellFormedStreams
    /\ fed = 0
    /\ dec = [buffer |-> <<>>, text |-> <<>>, sawDone |-> FALSE, events |-> <<>>,
              ended |-> FALSE]

NextLines ==
    \/ \E n \in 1..(Len(wire) - fed) : wire[fed + n] # "L" /\ DecodeChunk(n)
    \/ DecodeEnd

SpecLines == InitLines /\ [][NextLines]_vars

(***************************************************************************)
(* SpecNoise: the decoder on a stream of up to MaxLines lines, each a      *)
(* well-formed data line or a line the provider may send besides (a        *)
(* comment, an empty line, a truncated payload, a JSON payload of another  *)
(* shape), then the line `data: [DONE]`.  Chunks as in SpecLines.          *)
(***************************************************************************)
LineEmpty == <<"NL">>
LineWrongShape == <<"DATA", "(", ")", "NL">>
OtherLines == {LineComment, LineEmpty, LineMalformed, LineWrongShape}
NoiseLines == {LineA, LineUtf} \cup OtherLines

NoisyStreams ==
    {Flatten(ls) \o LineDone : ls \in UNION {[1..n -> NoiseLines] : n \in 0..MaxLines}}

InitNoise ==
    /\ EmptyStore
    /\ NoComposer
    /\ NoReturn
    /\ left = [sends |-> 0, ops |-> 0, ties |-> 0,
               chats |-> 1, forks |-> 1]
    /\ settings = DefaultSettings
    /\ providers = {}
    /\ wire \in NoisyStreams
    /\ fed = 0
    /\ dec = [buffer |-> <<>>, text |-> <<>>, sawDone |-> FALSE, events |-> <<>>,
              ended |-> FALSE]

NextNoise ==
    \/ \E n \in 1..(Len(wire) - fed) : wire[fed + n] # "L" /\ DecodeChunk(n)
    \/ DecodeEnd

SpecNoise == InitNoise /\ [][NextNoise]_vars

(***************************************************************************)
(* SpecChoice: the decoder on one data line whose payload holds up to      *)
(* MaxChoices choices; in each, the delta content and the message content  *)
(* are absent, empty or one letter.  Chunks are cut anywhere.              *)
(***************************************************************************)
Choices ==
    {c \in [hasDelta : BOOLEAN, delta : {<<>>, <<"a">>},
             hasMessage : BOOLEAN, message : {<<>>, <<"h">>}] :
        /\ ~c.hasDelta => c.delta = <<>>
        /\ ~c.hasMessage => c.message = <<>>}

ChoiceLists == UNION {[1..n -> Choices] : n \in 1..MaxChoices}

\* The bytes of one choice and of the data line carrying the choices.
ChoiceBytes(c) ==
    <<"(">> \o (IF c.hasDelta THEN <<"D">> \o c.delta \o <<";">> ELSE <<>>)
           \o (IF c.hasMessage THEN <<"M">> \o c.message \o <<";">> ELSE <<>>)
           \o <<")">>

PayloadLine(cs) ==
    <<"DATA", "{">> \o Flatten([i \in 1..Len(cs) |-> ChoiceBytes(cs[i])])
                   \o <<"}", "NL">>

InitChoice ==
    /\ EmptyStore
    /\ NoComposer
    /\ NoReturn
    /\ left = [sends |-> 0, ops |-> 0, ties |-> 0,
               chats |-> 1, forks |-> 1]
    /\ settings = DefaultSettings
    /\ providers = {}
    /\ wire \in {PayloadLine(cs) : cs \in ChoiceLists}
    /\ fed = 0
    /\ dec = [buffer |-> <<>>, text |-> <<>>, sawDone |-> FALSE, events |-> <<>>,
              ended |-> FALSE]

NextChoice ==
    \/ \E n \in 1..(Len(wire) - fed) : DecodeChunk(n)
    \/ DecodeEnd

SpecChoice == InitChoice /\ [][NextChoice]_vars

(***************************************************************************)
(* compose_prompt, domain/rp_engine/mod.rs 3-6, is a pure function of a    *)
(* list of prompt blocks.  SpecCompose hands it every list of up to        *)
(* MaxBlocks blocks and then applies it again to its own result.           *)
(***************************************************************************)

\* PromptBlock, models.rs 111-117.  order is an i32; only its ordering matters.
Orders == {-1, 1}
PromptBlock ==
    [id : {"1", "2"}, kind : {"system"}, enabled : BOOLEAN, order : Orders,
     content : {"S"}]

\* Variant of InsertByKey that places a block before the blocks of equal key.
InsertByKeyBeforeEqual(sorted, b) ==
    LET k == Cardinality({i \in 1..Len(sorted) : sorted[i].order < b.order})
    IN  SubSeq(sorted, 1, k) \o <<b>> \o SubSeq(sorted, k + 1, Len(sorted))

\* One step of the stable sort: b goes after every block whose key is not
\* greater than its own.
InsertByKey(sorted, b) ==
    LET k == Cardinality({i \in 1..Len(sorted) : sorted[i].order <= b.order})
    IN  SubSeq(sorted, 1, k) \o <<b>> \o SubSeq(sorted, k + 1, Len(sorted))

\* Variant of sort_by_key that takes the blocks from the back of the list, so
\* that blocks of equal key come out in reverse.
RECURSIVE sort_by_key_from_back(_)
sort_by_key_from_back(list) ==
    IF list = <<>> THEN <<>>
    ELSE InsertByKey(sort_by_key_from_back(Tail(list)), Head(list))

\* blocks.sort_by_key(|b| b.order): a stable sort by the order field.
RECURSIVE sort_by_key(_)
sort_by_key(list) ==
    IF list = <<>> THEN <<>>
    ELSE InsertByKey(sort_by_key(SubSeq(list, 1, Len(list) - 1)), list[Len(list)])

compose_prompt(list) ==
    SelectSeq(sort_by_key(list), LAMBDA b : b.enabled)

BlockLists == UNION {[1..n -> PromptBlock] : n \in 0..MaxBlocks}

InitCompose ==
    /\ EmptyStore
    /\ NoReturn
    /\ NoDecoder
    /\ left = [sends |-> 0, ops |-> 0, ties |-> 0,
               chats |-> 1, forks |-> 1]
    /\ settings = DefaultSettings
    /\ providers = {}
    /\ blocks \in BlockLists
    /\ composed = <<>>

\* A call of compose_prompt: the first on the list, the next on the result of
\* the one before.
Compose ==
    /\ Len(composed) < MaxApply
    /\ composed' = Append(composed,
                          compose_prompt(IF composed = <<>> THEN blocks
                                         ELSE composed[Len(composed)]))
    /\ UNCHANGED <<store, config, clock, ids, left, turns, decoder, blocks, ret>>

NextCompose == Compose

SpecCompose == InitCompose /\ [][NextCompose]_vars

(***************************************************************************)
(* Properties.                                                             *)
(***************************************************************************)
\* Step of call t that belongs to the call already on record (not the
\* start of the next call in the slot).
SameCall(t) == turns[t].user_id # None /\ turns'[t].user_id = turns[t].user_id

IsDelta(e) == e.kind = "chat_stream_delta"
IsDone(e) == e.kind = "chat_stream_done"

\* The row is the user message call `turn` stored, in the call's chat and branch.
IsUserRowOf(m, turn) ==
    /\ m.id = turn.user_id
    /\ m.role = "user"
    /\ m.chat_id = turn.chat_id
    /\ m.branch_id = turn.branch_id

\* C1: chat_send inserts the turn's user message before it issues the
\* provider request: in every step in which a call issues its request, the
\* user message of that call is already a row of the store before the step,
\* and no call on record holds an issued request without its user row.
C1_UserStoredBeforeRequest ==
    /\ [](\A t \in Slots :
            turns[t].request # <<>> => \E m \in messages : IsUserRowOf(m, turns[t]))
    /\ [][\A t \in Slots :
            turns[t].request = <<>> /\ turns'[t].request # <<>>
                => \E m \in messages : IsUserRowOf(m, turns'[t])]_vars

C1_Witness ==
    \E t \in Slots :
        /\ turns[t].pc = "requesting"
        /\ turns[t].request # <<>>
        /\ \E m \in messages : IsUserRowOf(m, turns[t])

\* C2: no failure of chat_send after the user message is stored takes the
\* message back: every step in which a call that stored its user message
\* fails (Configuration, NotFound, PolicyViolation, UpstreamError,
\* EmptyResponse, Notification) leaves that row in the store exactly as it
\* was before the step, and leaves every other row as it was; when no edit
\* and no delete has been called, the row of a failed call is not deleted
\* and holds the content that was sent.
C2_FailureKeepsUserMessage ==
    /\ [][\A t \in Slots :
            SameCall(t) /\ turns[t].pc # "failed" /\ turns'[t].pc = "failed"
               => /\ \E m \in messages : IsUserRowOf(m, turns[t]) /\ m \in messages'
                  /\ messages' = messages]_vars
    /\ [](\A t \in Slots :
            turns[t].pc = "failed" /\ turns[t].user_id # None /\ left.ops = MaxOps
               => \E m \in messages :
                     /\ IsUserRowOf(m, turns[t])
                     /\ ~m.deleted
                     /\ m.content = UserContent)

C2_Witness ==
    \E t \in Slots :
        /\ turns[t].pc = "failed"
        /\ turns[t].error = "UpstreamError"
        /\ turns[t].request # <<>>
        /\ \E m \in messages : IsUserRowOf(m, turns[t]) /\ ~m.deleted

\* C3: the assistant message is inserted before chat_stream_done is
\* emitted: in every step in which a call emits chat_stream_done, the id
\* the notification carries is already the id of an assistant row of the
\* notification's chat and branch, and every chat_stream_done on record
\* carries the id of such a row.
DoneNamesStoredAssistant(e, rows) ==
    \E m \in rows :
        /\ m.id = e.messageId
        /\ m.role = "assistant"
        /\ m.chat_id = e.chatId
        /\ m.branch_id = e.branchId

C3_AssistantStoredBeforeDone ==
    /\ [](\A t \in Slots : \A i \in 1..Len(turns[t].events) :
            IsDone(turns[t].events[i])
               => DoneNamesStoredAssistant(turns[t].events[i], messages))
    /\ [][\A t \in Slots :
            /\ SameCall(t)
            /\ Len(turns'[t].events) = Len(turns[t].events) + 1
            /\ IsDone(turns'[t].events[Len(turns'[t].events)])
            => DoneNamesStoredAssistant(turns'[t].events[Len(turns'[t].events)],
                                        messages)]_vars

C3_Witness ==
    \E t \in Slots :
        /\ turns[t].pc = "notified"
        /\ turns[t].events # <<>>
        /\ IsDone(turns[t].events[Len(turns[t].events)])
        /\ turns[t].events[Len(turns[t].events)].messageId = turns[t].assistant_id
        /\ DoneNamesStoredAssistant(turns[t].events[Len(turns[t].events)], messages)

\* C4: the content of the assistant message a call stores is the
\* concatenation, in emission order, of the fragments of the
\* chat_stream_delta notifications the call emitted: in the step that
\* inserts the row, every notification on the call's record is a delta and
\* the inserted content is their fragments joined in order.
C4_ContentIsConcatenationOfDeltas ==
    [][\A t \in Slots :
          SameCall(t) /\ turns[t].pc = "streaming" /\ turns'[t].pc = "committed"
             => /\ \A i \in 1..Len(turns[t].events) : IsDelta(turns[t].events[i])
                /\ \E m \in messages' \ messages :
                      /\ m.id = turns[t].assistant_id
                      /\ m.content =
                           Flatten([i \in 1..Len(turns[t].events) |->
                                       turns[t].events[i].delta])]_vars

C4_Witness ==
    \E t \in Slots :
        /\ turns[t].pc = "committed"
        /\ Len(turns[t].events) = 2
        /\ turns[t].events[1].delta # turns[t].events[2].delta
        /\ \E m \in messages :
              /\ m.id = turns[t].assistant_id
              /\ m.content = turns[t].events[1].delta \o turns[t].events[2].delta

\* C7: when the stream ends and the accumulated text is blank (empty or
\* whitespace only), chat_send fails with EmptyResponse: the step that ends
\* the streaming of a call whose text is blank never commits, the step that
\* fails with EmptyResponse writes nothing to the store, and a call that
\* failed with EmptyResponse has no assistant row, has emitted no
\* chat_stream_done, and its user message is still stored.
OnlyWhitespace(text) == \A i \in 1..Len(text) : text[i] = "SP"

C7_BlankResponseStoresNothing ==
    /\ [](\A t \in Slots :
            turns[t].pc = "failed" /\ turns[t].error = "EmptyResponse"
               => /\ turns[t].assistant_id \notin MessageIds
                  /\ \A i \in 1..Len(turns[t].events) : ~IsDone(turns[t].events[i])
                  /\ \E m \in messages : IsUserRowOf(m, turns[t]))
    /\ [][\A t \in Slots :
            SameCall(t) /\ turns[t].pc = "streaming"
               => /\ OnlyWhitespace(turns[t].assistant_text)
                       => turns'[t].pc \in {"streaming", "failed"}
                  /\ turns'[t].error = "EmptyResponse"
                       => /\ OnlyWhitespace(turns[t].assistant_text)
                          /\ messages' = messages
                          /\ turns'[t].events = turns[t].events]_vars

C7_Witness ==
    \E t \in Slots :
        /\ turns[t].pc = "failed"
        /\ turns[t].error = "EmptyResponse"
        /\ turns[t].events # <<>>
        /\ turns[t].events[1].delta = <<"SP">>
        /\ \E m \in messages : IsUserRowOf(m, turns[t])
        /\ turns[t].assistant_id \notin MessageIds

\* C10: the parent link of every assistant message names a stored user
\* message of the same chat and the same branch, and the assistant message
\* a chat_send call stored names the user message that same call stored.
C10_AssistantParentIsUserMessage ==
    /\ \A m \in messages :
          m.role = "assistant"
             => \E u \in messages :
                   /\ u.id = m.parent_id
                   /\ u.role = "user"
                   /\ u.chat_id = m.chat_id
                   /\ u.branch_id = m.branch_id
    /\ \A t \in Slots : \A m \in messages :
          m.id = turns[t].assistant_id /\ turns[t].assistant_id # None
             => m.parent_id = turns[t].user_id

C10_Witness ==
    \E t \in Slots : \E m \in messages : \E r \in messages :
        /\ m.role = "assistant"
        /\ m.id = turns[t].assistant_id
        /\ r.role = "assistant"
        /\ r.id # m.id
        /\ r.parent_id # m.parent_id

\* The base URLs of Urls whose host is a loopback address.
IsLoopback(base_url) == base_url \in {"http://localhost:11434/v1", "http://[::1]:8080"}

\* C8: chat_send issues a provider request only if the provider's base URL
\* is a loopback address or neither the provider's local-only flag nor the
\* global local-only mode is set; a call that reaches the gate with a base
\* URL that is not loopback and one of the flags set fails with
\* PolicyViolation and has issued no request.
C8_RequestOnlyWhenPolicyAllows ==
    /\ [](\A t \in Slots :
            turns[t].request # <<>>
               => \/ IsLoopback(turns[t].request[1].base_url)
                  \/ /\ ~turns[t].request[1].full_local_only
                     /\ ~turns[t].request[1].full_local_mode)
    /\ [][\A t \in Slots : \A p \in providers :
            /\ SameCall(t)
            /\ turns[t].pc = "stored"
            /\ turns'[t] # turns[t]
            /\ settings.active_provider_id = <<p.id>>
            /\ settings.active_model # <<>>
            /\ ~IsLoopback(p.base_url)
            /\ p.full_local_only \/ settings.full_local_mode
            => /\ turns'[t].pc = "failed"
               /\ turns'[t].error = "PolicyViolation"
               /\ turns'[t].request = <<>>]_vars

C8_Witness ==
    \E t \in Slots : \E p \in providers :
        /\ turns[t].pc = "failed"
        /\ turns[t].error = "PolicyViolation"
        /\ turns[t].request = <<>>
        /\ settings.active_provider_id = <<p.id>>
        /\ ~IsLoopback(p.base_url)
        /\ settings.full_local_mode

\* The non-deleted messages of the call's chat and branch.
ContextRows(turn) ==
    {m \in messages : /\ m.chat_id = turn.chat_id
                      /\ m.branch_id = turn.branch_id
                      /\ ~m.deleted}

\* list is the system instruction followed by one role/content pair per row
\* of rows, a row created earlier standing before a row created later.
ContextIsTimeline(list, rows) ==
    /\ Len(list) = Cardinality(rows) + 1
    /\ list[1] = [role |-> "system", content |-> SystemPrompt]
    /\ \A m \in rows :
          \E i \in (Cardinality({x \in rows : x.created_at < m.created_at}) + 1)
                     ..Cardinality({x \in rows : x.created_at <= m.created_at}) :
             list[i + 1] = [role |-> m.role, content |-> m.content]

\* C9: the message list of the request a call issues is the system
\* instruction followed by one role/content pair, with the full content,
\* for every message of the call's chat and branch that is not soft-deleted
\* when the context is built, in creation order: nothing of another branch
\* and nothing soft-deleted is in it, and the call's own user message is in
\* it unless it was soft-deleted after it was stored.
C9_ContextIsNonDeletedTimeline ==
    [][\A t \in Slots :
          turns[t].request = <<>> /\ turns'[t].request # <<>>
             => ContextIsTimeline(turns'[t].request[1].messages,
                                  ContextRows(turns'[t]))]_vars

\* C9 as stated: the list always includes the user message just stored.
C9_ContextAlwaysHoldsOwnUserMessage ==
    [][\A t \in Slots :
          turns[t].request = <<>> /\ turns'[t].request # <<>>
             => /\ ContextIsTimeline(turns'[t].request[1].messages,
                                     ContextRows(turns'[t]))
                /\ \E m \in ContextRows(turns'[t]) : IsUserRowOf(m, turns'[t])]_vars

C9_Witness ==
    \E t \in Slots :
        /\ turns[t].pc = "requesting"
        /\ Len(turns[t].request[1].messages) = 3
        /\ \E m \in ContextRows(turns[t]) : IsUserRowOf(m, turns[t])
        /\ \E m \in messages :
              /\ m.chat_id = turns[t].chat_id
              /\ m.branch_id = turns[t].branch_id
              /\ m.deleted
              /\ m.role = "assistant"
        /\ ContextIsTimeline(turns[t].request[1].messages, ContextRows(turns[t]))

\* The decoder's output for the stream delivered as one chunk.
Unsplit == ProcessChunk(<<>>, <<>>, FALSE, wire, 0)

\* C5: the decoder's output does not depend on the chunk boundaries: when
\* the stream has ended, the delta events and the accumulated text are the
\* ones the decoder yields for the same stream delivered as one chunk.
C5_OutputIndependentOfChunking ==
    dec.ended => dec.events = Unsplit.out /\ dec.text = Unsplit.text

\* C6: once the decoder has read a [DONE] payload, no chunk that arrives
\* afterwards produces a delta event or adds to the accumulated text.
C6_NothingDecodedAfterDone ==
    [][dec.sawDone => dec'.events = dec.events /\ dec'.text = dec.text]_vars

\* The non-deleted messages the call's branch held before the call: in
\* SpecSolo nothing but the call itself writes during the turn.
RowsBeforeTurn(turn) ==
    {m \in ContextRows(turn) : m.id \notin {turn.user_id, turn.assistant_id}}

\* C11: a chat_send that succeeds on a branch that held n non-deleted
\* messages, with no other call during the turn, returns n + 2 messages in
\* creation order: the n earlier ones, then the new user message (role
\* user, the sent content, no parent), then the new assistant message (role
\* assistant, the accumulated text, parent the user message).
C11_ResultIsTimelinePlusTwo ==
    [][\A t \in Slots :
          SameCall(t) /\ turns[t].pc = "notified" /\ turns'[t].pc = "done"
             => LET res == turns'[t].result
                    n == Cardinality(RowsBeforeTurn(turns[t]))
                IN  /\ Len(res) = n + 2
                    /\ {res[i] : i \in 1..n} = RowsBeforeTurn(turns[t])
                    /\ \A i \in 1..(n + 1) : res[i].created_at <= res[i + 1].created_at
                    /\ res[n + 1].id = turns[t].user_id
                    /\ res[n + 1].role = "user"
                    /\ res[n + 1].content = UserContent
                    /\ res[n + 1].parent_id = None
                    /\ res[n + 2].id = turns[t].assistant_id
                    /\ res[n + 2].role = "assistant"
                    /\ res[n + 2].content = turns[t].assistant_text
                    /\ res[n + 2].content =
                         Flatten([i \in 1..(Len(turns[t].events) - 1) |->
                                     turns[t].events[i].delta])
                    /\ res[n + 2].parent_id = turns[t].user_id]_vars

C11_Witness ==
    \E t \in Slots :
        /\ turns[t].pc = "done"
        /\ Len(turns[t].result) = 4
        /\ turns[t].result[3].id = turns[t].user_id
        /\ turns[t].result[4].id = turns[t].assistant_id
        /\ turns[t].result[4].content = <<"a", "h">>

\* Every entry of the timeline is a message of that chat and branch.
OnlyOfBranch(timeline, chat_id, branch_id) ==
    \A i \in 1..Len(timeline) :
        timeline[i].chat_id = chat_id /\ timeline[i].branch_id = branch_id

\* C12: every timeline read for a branch B, every timeline chat_send
\* returns for a turn on B and every provider context built for a turn on B
\* holds only messages whose branch id is B: what is stored on a sibling
\* branch of the same chat never appears, whenever it was created.
C12_BranchTimelinesNeverMerge ==
    /\ [](\A b \in BranchIds : \A c \in ChatIds :
            \A tl \in chat_get_timeline(c, b) : OnlyOfBranch(tl, c, b))
    /\ [](\A t \in Slots :
            turns[t].pc = "done"
               => OnlyOfBranch(turns[t].result, turns[t].chat_id, turns[t].branch_id))
    /\ [][\A t \in Slots :
            turns[t].request = <<>> /\ turns'[t].request # <<>>
               => LET own == {m \in messages : /\ m.branch_id = turns'[t].branch_id
                                               /\ ~m.deleted}
                      list == turns'[t].request[1].messages
                  IN  /\ Len(list) = Cardinality(own) + 1
                      /\ \A i \in 2..Len(list) :
                            \E m \in own : /\ list[i].role = m.role
                                           /\ list[i].content = m.content]_vars

C12_Witness ==
    \E t \in Slots : \E b \in branches : \E m \in messages :
        /\ b.id = turns[t].branch_id
        /\ b.parent_message_id = m.id
        /\ m.branch_id # b.id
        /\ m.chat_id = b.chat_id
        /\ ~m.deleted
        /\ turns[t].pc = "done"
        /\ Len(turns[t].result) = 2
        /\ OnlyOfBranch(turns[t].result, turns[t].chat_id, turns[t].branch_id)
        /\ Len(turns[t].request[1].messages) = 2

\* C13: chat_fork_branch changes nothing but the set of branches: a call
\* with fork point m on chat c adds exactly one branch row, of chat c with
\* parent-message id m, and leaves every message, every existing branch,
\* every chat, the settings and the providers as they were.
C13_ForkOnlyAddsOneBranch ==
    [][\A c \in ChatIds : \A m \in MessageIds :
          chat_fork_branch(c, m)
             => /\ messages' = messages
                /\ chats' = chats
                /\ settings' = settings
                /\ providers' = providers
                /\ branches \subseteq branches'
                /\ Cardinality(branches' \ branches) = 1
                /\ \A b \in branches' \ branches :
                      /\ b.parent_message_id = m
                      /\ b.chat_id = c
                      /\ b.id \notin BranchIds]_vars

C13_Witness ==
    \E b \in branches : \E m \in messages :
        /\ b.parent_message_id = m.id
        /\ m.branch_id # b.id
        /\ Cardinality(branches) = 2
        /\ \A x \in messages : x.branch_id # b.id

\* The delta contents written in a well-formed stream, in stream order:
\* the characters between each `"delta":{"content":"` and its closing quote.
RECURSIVE FragmentsFrom(_, _, _, _)
FragmentsFrom(w, i, inside, acc) ==
    IF i > Len(w) THEN acc
    ELSE IF ~inside
         THEN FragmentsFrom(w, i + 1, w[i] = "D",
                            IF w[i] = "D" THEN Append(acc, <<>>) ELSE acc)
    ELSE IF w[i] = ";" THEN FragmentsFrom(w, i + 1, FALSE, acc)
    ELSE IF w[i] = "L"
         THEN FragmentsFrom(w, i + 2, TRUE,
                            [acc EXCEPT ![Len(acc)] = Append(@, "E2")])
    ELSE FragmentsFrom(w, i + 1, TRUE, [acc EXCEPT ![Len(acc)] = Append(@, w[i])])

StreamFragments == FragmentsFrom(wire, 1, FALSE, <<>>)

\* C14: for a stream of complete lines `data: <json>`, each carrying one
\* non-empty delta fragment, followed by `data: [DONE]`, the decoder emits
\* one delta event per data line, in stream order, carrying the line's
\* fragment, and the accumulated text is the fragments joined: at the end
\* of the stream the events are the stream's fragments and the text is
\* their concatenation, and before the end the events are the fragments of
\* the lines delivered so far.
C14_OneDeltaPerDataLine ==
    /\ Len(dec.events) <= Len(StreamFragments)
    /\ dec.events = SubSeq(StreamFragments, 1, Len(dec.events))
    /\ dec.text = Flatten(dec.events)
    /\ Len(dec.events) =
          Cardinality({i \in 1..fed : wire[i] = "NL" /\ i < Len(wire)})
    /\ dec.ended => dec.events = StreamFragments

C14_Witness ==
    /\ dec.ended
    /\ wire = LineHe \o LineA \o LineDone
    /\ dec.events = <<<<"h", "e">>, <<"a">>>>
    /\ dec.text = <<"h", "e", "a">>

\* The lines of w that are complete, each with its newline, in order.
RECURSIVE SplitLines(_)
SplitLines(w) ==
    IF \A i \in 1..Len(w) : w[i] # "NL" THEN <<>>
    ELSE LET pos == CHOOSE i \in 1..Len(w) :
                       w[i] = "NL" /\ \A j \in 1..(i - 1) : w[j] # "NL"
         IN  <<SubSeq(w, 1, pos)>> \o SplitLines(SubSeq(w, pos + 1, Len(w)))

\* The stream w without the lines that are no well-formed data line.
RECURSIVE WithoutOtherLines(_)
WithoutOtherLines(ls) ==
    IF ls = <<>> THEN <<>>
    ELSE (IF Head(ls) \in OtherLines THEN <<>> ELSE Head(ls))
            \o WithoutOtherLines(Tail(ls))

\* The fragments of the well-formed data lines delivered whole so far.
FragmentsDelivered ==
    FragmentsFrom(WithoutOtherLines(SplitLines(SubSeq(wire, 1, fed))), 1, FALSE, <<>>)

\* C15: a line without the prefix `data: ` and a data line whose payload
\* does not parse as a chunk of the expected shape produce no delta event,
\* leave the accumulated text unchanged and do not fail the handler, and
\* the lines behind them are processed as if they were absent: at every
\* point the events and the text are those of the well-formed data lines
\* delivered so far, and no decoding step ends in an error.
C15_OtherLinesAreSkipped ==
    /\ [](/\ dec.events = FragmentsDelivered
          /\ dec.text = Flatten(FragmentsDelivered))
    /\ [][fed' > fed
            => ~ProcessChunk(dec.buffer, dec.text, dec.sawDone,
                             SubSeq(wire, fed + 1, fed'), 0).failed]_vars

C15_Witness ==
    /\ dec.ended
    /\ wire = LineMalformed \o LineA \o LineDone
    /\ dec.events = <<<<"a">>>>
    /\ dec.text = <<"a">>

\* The fragment of a choice when the first non-empty of the delta content
\* and the message content wins: a sequence of zero or one fragment.
FirstNonEmpty(c) ==
    IF c.hasDelta /\ c.delta # <<>> THEN <<c.delta>>
    ELSE IF c.hasMessage /\ c.message # <<>> THEN <<c.message>>
    ELSE <<>>

\* The choices the stream's payload was written from.
WireChoices == CHOOSE cs \in ChoiceLists : PayloadLine(cs) = wire

FirstNonEmptyFragments ==
    Flatten([i \in 1..Len(WireChoices) |-> FirstNonEmpty(WireChoices[i])])

\* C16: for each choice the fragment is the first non-empty of the delta
\* content and the message content, and only a non-empty fragment is
\* emitted and appended: no delta event carries an empty fragment, and when
\* the line has been decoded the events are the first non-empty contents of
\* its choices, in order, and the text is their concatenation.
C16_FirstNonEmptyContentWins ==
    /\ \A i \in 1..Len(dec.events) : dec.events[i] # <<>>
    /\ dec.ended => /\ dec.events = FirstNonEmptyFragments
                    /\ dec.text = Flatten(FirstNonEmptyFragments)

\* C17: when the provider answers with a non-2xx status, chat_send fails
\* with UpstreamError, has emitted no notification and has stored no
\* assistant message, and the store differs from its state before the turn
\* by the turn's user message only: the step that starts the call adds the
\* user row and nothing else, the steps up to the response write nothing,
\* the step that receives the status fails the call, and when it has failed
\* the user row is the only row made since the call started.
C17_Non2xxLeavesOnlyUserMessage ==
    /\ [][\A t \in Slots :
            /\ turns'[t].pc = "stored" /\ turns[t].pc # "stored"
                  => /\ \E m \in messages' \ messages : IsUserRowOf(m, turns'[t])
                     /\ messages \subseteq messages'
                     /\ Cardinality(messages' \ messages) = 1
                     /\ chats' = chats /\ branches' = branches
            /\ SameCall(t) /\ turns[t].pc = "stored" /\ turns'[t] # turns[t]
                  => /\ messages' = messages
                     /\ chats' = chats /\ branches' = branches
                     /\ turns'[t].events = <<>>
            /\ SameCall(t) /\ turns[t].pc = "requesting" /\ turns'[t].pc = "failed"
                  => /\ turns'[t].error = "UpstreamError"
                     /\ turns'[t].events = <<>>
                     /\ messages' = messages
                     /\ chats' = chats /\ branches' = branches
                     /\ turns'[t].assistant_id \notin MessageIds'
                     /\ \A m \in messages' :
                           m.id >= turns'[t].user_id => IsUserRowOf(m, turns'[t])]_vars

C17_Witness ==
    \E t \in Slots :
        /\ turns[t].pc = "failed"
        /\ turns[t].error = "UpstreamError"
        /\ turns[t].request # <<>>
        /\ turns[t].events = <<>>
        /\ Cardinality(messages) = 3
        /\ \E m \in messages : IsUserRowOf(m, turns[t])
        /\ turns[t].assistant_id \notin MessageIds

\* C18: when the transport fails while the response body is read, the turn
\* fails with UpstreamError: the step discards the accumulated text, writes
\* nothing to the store and emits nothing, so the notifications emitted
\* before it stand and no stream-done notification is among them; a call that
\* failed with UpstreamError never has its assistant message in the store.
C18_StreamFailureDiscardsText ==
    /\ [][\A t \in Slots :
            SameCall(t) /\ turns[t].pc = "streaming" /\ turns'[t].pc = "failed"
            /\ turns'[t].error = "UpstreamError"
               => /\ turns'[t].events = turns[t].events
                  /\ turns'[t].assistant_text = <<>>
                  /\ turns'[t].result = <<>>
                  /\ messages' = messages
                  /\ chats' = chats /\ branches' = branches]_vars
    /\ [](\A t \in Slots :
            turns[t].pc = "failed" /\ turns[t].error = "UpstreamError"
               => /\ turns[t].assistant_id \notin MessageIds
                  /\ turns[t].assistant_text = <<>>
                  /\ \A i \in 1..Len(turns[t].events) : IsDelta(turns[t].events[i]))

C18_Witness ==
    \E t \in Slots :
        /\ turns[t].pc = "failed"
        /\ turns[t].error = "UpstreamError"
        /\ Len(turns[t].events) >= 1
        /\ \A i \in 1..Len(turns[t].events) : IsDelta(turns[t].events[i])
        /\ turns[t].assistant_id \notin MessageIds

\* C19: when the settings hold no active provider id or no active model id
\* at the time chat_send reads them, the call fails with a Configuration
\* error: its user message is already stored, and it has built no provider
\* request, emitted no notification and written no assistant message.
C19_MissingActiveSelectionFails ==
    [][\A t \in Slots :
          SameCall(t) /\ turns[t].pc = "stored" /\ turns'[t] # turns[t]
          /\ (settings.active_provider_id = <<>> \/ settings.active_model = <<>>)
             => /\ turns'[t].pc = "failed"
                /\ turns'[t].error = "Configuration"
                /\ turns'[t].request = <<>>
                /\ turns'[t].events = <<>>
                /\ turns'[t].result = <<>>
                /\ \E m \in messages' : IsUserRowOf(m, turns'[t])
                /\ turns'[t].assistant_id \notin MessageIds'
                /\ messages' = messages]_vars

C19_Witness ==
    /\ settings.active_provider_id # <<>>
    /\ settings.active_model = <<>>
    /\ fetch_provider_row(settings.active_provider_id[1]) # {}
    /\ turns[1].pc = "failed"
    /\ turns[1].error = "Configuration"
    /\ turns[1].request = <<>>
    /\ \E m \in messages : IsUserRowOf(m, turns[1])

\* Position i of the list holds an enabled block.
EnabledAt(list) == {i \in 1..Len(list) : list[i].enabled}

\* The place of the enabled block at position i among the enabled blocks,
\* by order ascending and, for equal order, by position in the list.
PlaceOf(list, i) ==
    1 + Cardinality({j \in EnabledAt(list) :
                        \/ list[j].order < list[i].order
                        \/ list[j].order = list[i].order /\ j < i})

\* C20: compose_prompt returns exactly the enabled blocks of its input, each
\* occurrence once, sorted by order ascending, blocks of equal order in their
\* original relative position; no disabled block and no block absent from
\* the input is in the output.
C20_ComposeIsEnabledBlocksStablySorted ==
    composed # <<>> =>
        LET out == composed[1]
        IN  /\ Len(out) = Cardinality(EnabledAt(blocks))
            /\ \A i \in EnabledAt(blocks) : out[PlaceOf(blocks, i)] = blocks[i]
            /\ \A k \in 1..Len(out) :
                  /\ out[k].enabled
                  /\ \E i \in 1..Len(blocks) : blocks[i] = out[k]
            /\ \A k, l \in 1..Len(out) : k < l => out[k].order <= out[l].order

C20_Witness ==
    /\ composed # <<>>
    /\ Len(blocks) = 4
    /\ \E i \in 1..Len(blocks) : ~blocks[i].enabled
    /\ \E i, j \in EnabledAt(blocks) :
          i < j /\ blocks[i].order = blocks[j].order /\ blocks[i].id # blocks[j].id
    /\ \E i, j \in EnabledAt(blocks) : i < j /\ blocks[i].order > blocks[j].order
    /\ Len(composed[1]) = 3

\* C21: compose_prompt is idempotent: applied to its own result it returns
\* that result, element for element and in the same order.
C21_ComposeIsIdempotent ==
    \A k \in 2..Len(composed) : composed[k] = composed[k - 1]

C21_Witness ==
    /\ Len(composed) >= 2
    /\ composed[1] # blocks
    /\ Len(composed[2]) >= 3
    /\ \E i, j \in 1..Len(composed[2]) :
          /\ i < j
          /\ composed[2][i].order = composed[2][j].order
          /\ composed[2][i].id # composed[2][j].id
    /\ \E i, j \in 1..Len(composed[2]) : composed[2][i].order # composed[2][j].order

\* The branches of a chat, and its root branches (null parent-message id).
BranchesOf(chat_id) == {b \in branches : b.chat_id = chat_id}
RootsOf(chat_id) == {b \in BranchesOf(chat_id) : b.parent_message_id = None}
DistinctTimes(chat_id) ==
    \A x, y \in BranchesOf(chat_id) : x # y => x.created_at # y.created_at

OnMissingBranch(turn) ==
    /\ turn.user_id # None
    /\ ~\E b \in branches : b.id = turn.branch_id /\ b.chat_id = turn.chat_id

\* C23: a chat_send addressed to a branch id that names no existing branch
\* of the chat ends with a not-found error: it sends no request, stores no
\* assistant message, and when it has ended it has failed with NotFound.
C23_MissingBranchEndsNotFound ==
    \A t \in Slots :
        OnMissingBranch(turns[t])
           => /\ turns[t].request = <<>>
              /\ turns[t].assistant_id \notin MessageIds
              /\ ~Running(turns[t]) => turns[t].pc = "failed" /\ turns[t].error = "NotFound"

\* C24: with no branch id supplied, a chat without branches (an unknown chat
\* id included) makes resolve_branch fail, and chat_send then fails with
\* NotFound before it stores the user message, sends a request or emits a
\* notification: the store is unchanged.
C24_NoBranchFailsBeforeAnyWrite ==
    /\ [](\A c \in AnyChat :
            ~(\E b \in branches : b.chat_id = c) => resolve_branch(c, None) = {})
    /\ [][\A c \in AnyChat :
            SendStart(1, c, None) /\ ~(\E b \in branches : b.chat_id = c)
               => /\ turns'[1].pc = "failed"
                  /\ turns'[1].error = "NotFound"
                  /\ turns'[1].user_id = None
                  /\ turns'[1].request = <<>>
                  /\ turns'[1].events = <<>>
                  /\ turns'[1].result = <<>>
                  /\ store' = store
                  /\ ids' = ids]_vars

C24_Witness ==
    /\ turns[1].pc = "failed"
    /\ turns[1].error = "NotFound"
    /\ turns[1].user_id = None
    /\ turns[1].chat_id \in ChatIds
    /\ BranchesOf(turns[1].chat_id) = {}
    /\ messages = {}

\* The non-deleted user messages of a branch.
LiveUsers(chat_id, branch_id) ==
    {u \in messages : /\ u.chat_id = chat_id /\ u.branch_id = branch_id
                      /\ u.role = "user" /\ ~u.deleted}

\* C25: chat_regenerate on a branch with a non-deleted user message stores
\* exactly one new message: an assistant message of the same chat and
\* branch, whose parent is the most recently created non-deleted user
\* message of the branch and whose content is "[Regenerated] " followed by
\* that message's current content; every other row is unchanged, and the
\* timeline it returns is the branch's non-deleted rows ending with the new
\* message.
C25_RegenerateAddsOneReply ==
    [][\A c \in ChatIds, b \in {None} \cup BranchIds :
          chat_regenerate(c, b)
          /\ (\E br \in resolve_branch(c, b) : LiveUsers(c, br) # {})
             => \E new \in messages' \ messages :
                \E u \in LiveUsers(c, new.branch_id) :
                   /\ messages' = messages \cup {new}
                   /\ chats' = chats /\ branches' = branches
                   /\ new.id \notin MessageIds
                   /\ new.role = "assistant" /\ ~new.deleted
                   /\ new.chat_id = c
                   /\ new.branch_id \in resolve_branch(c, b)
                   /\ new.parent_id = u.id
                   /\ \A o \in LiveUsers(c, new.branch_id) : o.created_at <= u.created_at
                   /\ new.content =
                         <<"[", "R", "e", "g", "e", "n", "e", "r", "a", "t", "e", "d", "]", "SP">>
                            \o u.content
                   /\ ret'.value # <<>>
                   /\ ret'.value[1].op = "chat_regenerate"
                   /\ ret'.value[1].error = ""
                   /\ LET tl == ret'.value[1].timeline
                      IN  /\ tl[Len(tl)] = new
                          /\ {tl[i] : i \in 1..Len(tl)} =
                                {m \in messages' : /\ m.chat_id = c
                                                   /\ m.branch_id = new.branch_id
                                                   /\ ~m.deleted}
                          /\ Len(tl) = Cardinality({tl[i] : i \in 1..Len(tl)})]_vars

C25_Witness ==
    /\ ret.value # <<>>
    /\ ret.value[1].op = "chat_regenerate"
    /\ ret.value[1].error = ""
    /\ LET tl == ret.value[1].timeline
           new == tl[Len(tl)]
       IN  /\ new \in messages
           /\ new.role = "assistant"
           /\ new.content = Regenerated(EditContent)
           /\ Cardinality(LiveUsers(new.chat_id, new.branch_id)) = 2
           /\ \E u \in LiveUsers(new.chat_id, new.branch_id) :
                 /\ u.id = new.parent_id
                 /\ \A o \in LiveUsers(new.chat_id, new.branch_id) :
                       o.created_at <= u.created_at

\* C26: chat_regenerate on a branch without a non-deleted user message (an
\* empty branch, one whose user messages are all soft-deleted and that holds
\* assistant messages only, a branch that does not exist) fails with
\* NotFound and writes nothing.
C26_RegenerateWithoutUserFails ==
    [][\A c \in AnyChat, b \in AnyBranch :
          chat_regenerate(c, b)
          /\ (\A br \in resolve_branch(c, b) : LiveUsers(c, br) = {})
             => /\ store' = store
                /\ ids' = ids
                /\ clock' = clock
                /\ ret'.value # <<>>
                /\ ret'.value[1].op = "chat_regenerate"
                /\ ret'.value[1].error = "NotFound"
                /\ ret'.value[1].timeline = <<>>]_vars

C26_Witness ==
    /\ ret.value # <<>>
    /\ ret.value[1].op = "chat_regenerate"
    /\ ret.value[1].error = "NotFound"
    /\ ret.value[1].chat_id \in ChatIds
    /\ \E br \in resolve_branch(ret.value[1].chat_id, ret.value[1].branch_opt) :
          /\ LiveUsers(ret.value[1].chat_id, br) = {}
          /\ \E u, a \in messages :
                /\ u.branch_id = br /\ u.role = "user" /\ u.deleted
                /\ a.branch_id = br /\ a.role = "assistant" /\ ~a.deleted

\* The ids of the soft-deleted messages.
DeletedIds == {m.id : m \in {x \in messages : x.deleted}}
IdsIn(timeline) == {timeline[i].id : i \in 1..Len(timeline)}

\* C27: a soft-deleted message stays in the store with its flag set, and
\* from then on no timeline that chat_get_timeline, chat_regenerate or
\* chat_send returns holds it, no provider context has an entry for it, and
\* chat_regenerate never takes it as the user message it answers.
C27_DeletedStaysOutOfReads ==
    [][/\ \A m \in messages :
             \E k \in messages' : k.id = m.id /\ (m.deleted => k.deleted)
       /\ \A c \in ChatIds, b \in {None} \cup BranchIds :
             chat_get_timeline_command(c, b) \/ chat_regenerate(c, b)
                => IdsIn(ret'.value[1].timeline) \cap DeletedIds = {}
       /\ \A t \in Slots :
             /\ turns'[t].result # turns[t].result
                   => IdsIn(turns'[t].result) \cap DeletedIds = {}
             /\ turns'[t].request # turns[t].request /\ turns'[t].request # <<>>
                   => Len(turns'[t].request[1].messages) =
                         1 + Cardinality({m \in messages :
                                             /\ m.chat_id = turns'[t].chat_id
                                             /\ m.branch_id = turns'[t].branch_id
                                             /\ m.id \notin DeletedIds})
       /\ \A c \in ChatIds, b \in {None} \cup BranchIds :
             chat_regenerate(c, b)
                => \A new \in messages' \ messages : new.parent_id \notin DeletedIds]_vars

C27_Witness ==
    /\ ret.value # <<>>
    /\ ret.value[1].op = "chat_get_timeline"
    /\ ret.value[1].error = ""
    /\ ret.value[1].timeline # <<>>
    /\ \E m \in messages :
          /\ m.deleted
          /\ m.chat_id = ret.value[1].chat_id
          /\ m.branch_id = ret.value[1].timeline[1].branch_id
          /\ m.id \notin IdsIn(ret.value[1].timeline)

\* The ids of the rows of a branch's timeline, in the orders a read may
\* return them.
TimelineIds(chat_id, branch_id) ==
    {[i \in 1..Len(tl) |-> tl[i].id] : tl \in chat_get_timeline(chat_id, branch_id)}

\* C28: the store is append-only except for soft-delete and edit-in-place:
\* no step removes a chat, branch or message row or changes a message's id,
\* chat, branch, role, parent or creation timestamp, and chat_edit_message
\* changes nothing but the content and token count of the message it names,
\* which keeps its place in every timeline.
C28_AppendOnlyExceptDeleteAndEdit ==
    [][/\ chats \subseteq chats'
       /\ branches \subseteq branches'
       /\ \A m \in messages :
             \E k \in messages' :
                /\ k.id = m.id
                /\ k.chat_id = m.chat_id /\ k.branch_id = m.branch_id
                /\ k.role = m.role /\ k.parent_id = m.parent_id
                /\ k.created_at = m.created_at
       /\ \A id \in AnyMessage :
             chat_edit_message(id, EditContent)
                => /\ chats' = chats /\ branches' = branches
                   /\ Cardinality(messages') = Cardinality(messages)
                   /\ \A m \in messages :
                         IF m.id = id
                         THEN [m EXCEPT !.content = EditContent, !.token_count = 1]
                                 \in messages'
                         ELSE m \in messages'
                   /\ \A c \in AnyChat, b \in AnyBranch :
                         TimelineIds(c, b)' = TimelineIds(c, b)]_vars

C28_Witness ==
    \E m, n \in messages :
        /\ m.content = EditContent
        /\ m.token_count = 1
        /\ m.role = "user"
        /\ n.chat_id = m.chat_id /\ n.branch_id = m.branch_id
        /\ ~n.deleted /\ ~m.deleted
        /\ n.created_at > m.created_at
        /\ turns[1].pc = "done"
        /\ turns[1].user_id = m.id

\* C29: in every reachable state every chat has at least one branch, a root
\* branch with a null parent-message id among them.
C29_EveryChatHasRootBranch ==
    \A c \in ChatIds : RootsOf(c) # {}

\* C30: in every reachable state the parent-message id of every non-root
\* branch names an existing message of the branch's chat that lies on
\* another branch.
C30_ForkPointExistsInSameChat ==
    \A b \in branches :
        b.parent_message_id # None
           => \E m \in messages : /\ m.id = b.parent_message_id
                                  /\ m.chat_id = b.chat_id
                                  /\ m.branch_id # b.id

(***************************************************************************)
(* SpecClock: chat_send and chat_regenerate calls that the provider        *)
(* answers, where storage::now() may return the reading it returned last   *)
(* (the wall clock has a resolution, and nothing in the code compares a    *)
(* new timestamp with the stored ones).                                    *)
(***************************************************************************)
InitClock ==
    /\ EmptyStore
    /\ NoComposer
    /\ NoReturn
    /\ NoDecoder
    /\ left = [sends |-> MaxTurns, ops |-> MaxOps, ties |-> MaxTies,
               chats |-> 1, forks |-> 0]
    /\ settings = ActiveSettings(FALSE)
    /\ providers = {RemoteProvider}

NextClock ==
    \/ chat_create
    \/ \E c \in ChatIds, b \in {None} \cup BranchIds :
          ~Running(turns[1]) /\ chat_regenerate(c, b)
    \/ \E c \in ChatIds, b \in {None} \cup BranchIds : SendStart(1, c, b)
    \/ SendBuild(1)
    \/ SendResponse(1, "2xx")
    \/ turns[1].nchunks = 0 /\ SendChunk(1, LineA)
    \/ SendStreamEnd(1)
    \/ SendEmitDone(1, TRUE)
    \/ SendReturn(1)

SpecClock == InitClock /\ [][NextClock]_vars

\* C31: the messages of one (chat, branch) pair are strictly ordered by
\* creation timestamp: no two of them share a timestamp, and every
\* assistant message has a timestamp strictly later than the user message
\* it answers.
C31_TimestampsStrictlyOrdered ==
    /\ \A m \in messages : \A k \in messages :
          /\ m.id # k.id
          /\ m.chat_id = k.chat_id
          /\ m.branch_id = k.branch_id
          => m.created_at # k.created_at
    /\ \A m \in messages : \A u \in messages :
          m.role = "assistant" /\ u.id = m.parent_id
             => u.created_at < m.created_at

(***************************************************************************)
(* SpecPair: two chat_send calls in flight at once.  chat_send is an async *)
(* command: its stretches between two awaits run on the runtime's worker   *)
(* threads, every call with its own connection and its own locals, and     *)
(* nothing in the code keeps a second call from starting while the first   *)
(* awaits the provider.  chat_regenerate and chat_fork_branch are called   *)
(* at any point in between.                                                *)
(***************************************************************************)
PairChunks == {LineA \o LineH, LineH}

InitPair ==
    /\ EmptyStore
    /\ NoComposer
    /\ NoReturn
    /\ NoDecoder
    /\ left = [sends |-> 2, ops |-> MaxOps, ties |-> 0,
               chats |-> 1, forks |-> 1]
    /\ settings = ActiveSettings(FALSE)
    /\ providers = {RemoteProvider}

NextPair ==
    \/ chat_create
    \/ \E c \in ChatIds, m \in MessageIds : chat_fork_branch(c, m)
    \/ \E c \in ChatIds, b \in {None} \cup BranchIds : chat_regenerate(c, b)
    \/ \E t \in Slots, c \in ChatIds, b \in {None} \cup BranchIds : SendStart(t, c, b)
    \/ \E t \in Slots : SendBuild(t)
    \/ \E t \in Slots : SendResponse(t, "2xx")
    \/ \E t \in Slots, chunk \in PairChunks :
          turns[t].nchunks = 0 /\ SendChunk(t, chunk)
    \/ \E t \in Slots : SendStreamEnd(t)
    \/ \E t \in Slots : SendEmitDone(t, TRUE)
    \/ \E t \in Slots : SendReturn(t)

SpecPair == InitPair /\ [][NextPair]_vars

\* The delta notifications on the record of a call, as fragments in order.
DeltasOf(turn) ==
    Flatten([i \in 1..Len(turn.events) |->
                IF IsDelta(turn.events[i]) THEN turn.events[i].delta ELSE <<>>])

\* C32: two chat_send calls in flight at once, on one branch or on two,
\* share no in-flight state: a step of one call's decoding leaves the other
\* call's record as it was and takes the call's buffer, text and
\* notifications from its own previous ones and the chunk that arrived on
\* its own stream; every delta notification of a call carries the chat id
\* and the branch id of that call; and the assistant row a call inserts
\* holds the concatenation of the call's own fragments, under the call's own
\* assistant id, chat and branch, with the call's own user message as parent.
C32_TurnsShareNoInFlightState ==
    /\ [](\A t \in Slots : \A i \in 1..Len(turns[t].events) :
            IsDelta(turns[t].events[i])
               => /\ turns[t].events[i].chatId = turns[t].chat_id
                  /\ turns[t].events[i].branchId = turns[t].branch_id)
    /\ [][\A t \in Slots :
            /\ SameCall(t) /\ turns[t].pc = "streaming" /\ turns'[t] # turns[t]
                  => \A u \in Slots \ {t} : turns'[u] = turns[u]
            /\ SameCall(t) /\ turns[t].pc = "streaming" /\ turns'[t].pc = "streaming"
               /\ turns'[t] # turns[t]
                  => \E chunk \in PairChunks :
                        LET d == ProcessChunk(turns[t].buffer, turns[t].assistant_text,
                                              turns[t].sawDone, chunk, 0)
                        IN  /\ turns'[t].buffer = d.buffer
                            /\ turns'[t].assistant_text = d.text
                            /\ turns'[t].events = turns[t].events \o
                                  DeltaEvents(turns[t].chat_id, turns[t].branch_id, d.out)
            /\ SameCall(t) /\ turns[t].pc = "streaming" /\ turns'[t].pc = "committed"
                  => \E m \in messages' \ messages :
                        /\ messages' = messages \cup {m}
                        /\ m.id = turns[t].assistant_id
                        /\ m.role = "assistant"
                        /\ m.chat_id = turns[t].chat_id
                        /\ m.branch_id = turns[t].branch_id
                        /\ m.parent_id = turns[t].user_id
                        /\ m.content = DeltasOf(turns[t])]_vars

\* Both calls are in flight on one branch, each has committed, and the two
\* rows hold the two different texts the two streams carried.
C32_Witness ==
    /\ turns[1].pc = "committed"
    /\ turns[2].pc = "committed"
    /\ turns[1].chat_id = turns[2].chat_id
    /\ turns[1].branch_id = turns[2].branch_id
    /\ \E m \in messages : \E k \in messages :
          /\ m.id = turns[1].assistant_id /\ m.parent_id = turns[1].user_id
          /\ k.id = turns[2].assistant_id /\ k.parent_id = turns[2].user_id
          /\ m.content = <<"a", "h">>
          /\ k.content = <<"h">>
          /\ turns[1].events = DeltaEvents(m.chat_id, m.branch_id, <<<<"a">>, <<"h">>>>)
          /\ turns[2].events = DeltaEvents(k.chat_id, k.branch_id, <<<<"h">>>>)

(***************************************************************************)
(* SpecPartial: the decoder on streams whose last line may lack its        *)
(* newline, cut into chunks at every position: data lines and other lines, *)
(* then `data: [DONE]` or not, then the beginning of a data line or        *)
(* nothing.                                                                *)
(***************************************************************************)
BodyLines == {LineA, LineHe, LineComment}

PartialStreams ==
    {Flatten(ls) \o done \o rest :
        ls \in UNION {[1..n -> BodyLines] : n \in 0..MaxLines},
        done \in {<<>>, LineDone},
        rest \in {<<>>, LineUnterminated}}

InitPartial ==
    /\ EmptyStore
    /\ NoComposer
    /\ NoReturn
    /\ left = [sends |-> 0, ops |-> 0, ties |-> 0,
               chats |-> 1, forks |-> 1]
    /\ settings = DefaultSettings
    /\ providers = {}
    /\ wire \in PartialStreams
    /\ fed = 0
    /\ dec = [buffer |-> <<>>, text |-> <<>>, sawDone |-> FALSE, events |-> <<>>,
              ended |-> FALSE]

NextPartial ==
    \/ \E n \in 1..(Len(wire) - fed) : DecodeChunk(n)
    \/ DecodeEnd

SpecPartial == InitPartial /\ [][NextPartial]_vars

\* What of w stands behind its last newline: the line that is not complete.
PartialTail(w) ==
    IF \A i \in 1..Len(w) : w[i] # "NL" THEN w
    ELSE LET pos == CHOOSE i \in 1..Len(w) :
                       w[i] = "NL" /\ \A j \in (i + 1)..Len(w) : w[j] # "NL"
         IN  SubSeq(w, pos + 1, Len(w))

\* The fragments of the lines of w that are complete.
CompleteLineFragments(w) == FragmentsFrom(Flatten(SplitLines(w)), 1, FALSE, <<>>)

\* C33: the decoder processes a line only when its newline has arrived, and
\* then once: at every point the delta events are the fragments of the
\* lines that are complete in what has been delivered, each once and in
\* order, the buffer holds the line that is not complete yet, and when the
\* stream has ended a last line without newline has produced no event and
\* no text.
C33_LineProcessedOnceWhenComplete ==
    /\ dec.events = CompleteLineFragments(SubSeq(wire, 1, fed))
    /\ dec.text = Flatten(dec.events)
    /\ dec.buffer = PartialTail(SubSeq(wire, 1, fed))
    /\ dec.ended => /\ dec.events = CompleteLineFragments(wire)
                    /\ dec.buffer = PartialTail(wire)

C33_Witness ==
    /\ dec.ended
    /\ wire = LineHe \o LineA \o LineUnterminated
    /\ dec.events = <<<<"h", "e">>, <<"a">>>>
    /\ dec.text = <<"h", "e", "a">>
    /\ dec.buffer = LineUnterminated

(***************************************************************************)
(* SpecLive: one chat_send at a time against a provider that answers and   *)
(* whose stream ends or errors, with chat_regenerate called in between.    *)
(* The stretches of chat_send are the steps of one task of the runtime:    *)
(* a task that can run is run, the response future resolves with a status  *)
(* or a transport error, and stream.next() resolves with a chunk, with an  *)
(* error or with None; a stream delivers finitely many chunks.  So a call  *)
(* that can take a step takes one (weak fairness on TurnStep).             *)
(***************************************************************************)
LiveChunks == {LineA, Take(LineH, 4), Drop(LineH, 4) \o LineBlank}

InitLive ==
    /\ EmptyStore
    /\ NoComposer
    /\ NoReturn
    /\ NoDecoder
    /\ left = [sends |-> 2, ops |-> 1, ties |-> 0, chats |-> 1, forks |-> 0]
    /\ settings = ActiveSettings(FALSE)
    /\ providers = {RemoteProvider}

NextLive ==
    \/ chat_create
    \/ \E c \in ChatIds, b \in {None} \cup BranchIds : chat_regenerate(c, b)
    \/ \E c \in ChatIds, b \in {None} \cup BranchIds : SendStart(1, c, b)
    \/ SendBuild(1)
    \/ \E o \in {"2xx", "status", "transport"} : SendResponse(1, o)
    \/ \E chunk \in LiveChunks : turns[1].nchunks < MaxLines /\ SendChunk(1, chunk)
    \/ SendStreamError(1)
    \/ SendStreamEnd(1)
    \/ \E ok \in BOOLEAN : SendEmitDone(1, ok)
    \/ SendReturn(1)

TurnStep ==
    \/ SendBuild(1)
    \/ \E o \in {"2xx", "status", "transport"} : SendResponse(1, o)
    \/ \E chunk \in LiveChunks : turns[1].nchunks < MaxLines /\ SendChunk(1, chunk)
    \/ SendStreamError(1)
    \/ SendStreamEnd(1)
    \/ \E ok \in BOOLEAN : SendEmitDone(1, ok)
    \/ SendReturn(1)

SpecLive == InitLive /\ [][NextLive]_vars /\ WF_vars(TurnStep)

\* Every pass of the loop of lines 483-485 on buffer leaves a shorter buffer.
RECURSIVE LoopShrinks(_)
LoopShrinks(buffer) ==
    LET pos == FindNewline(buffer) IN
    IF pos = 0 THEN TRUE
    ELSE /\ Len(Drop(buffer, pos)) < Len(buffer)
         /\ LoopShrinks(Drop(buffer, pos))

\* C34: with a provider that answers and a stream that ends or errors,
\* every chat_send call that has started returns: with the timeline read at
\* the return, or with an error; and the line loop ends on every chunk,
\* because every pass takes at least one character off the buffer.
C34_EverySendTerminates ==
    /\ Running(turns[1]) ~> turns[1].pc \in {"done", "failed"}
    /\ [](turns[1].pc = "failed" => turns[1].error # "")
    /\ [][turns[1].pc # "done" /\ turns'[1].pc = "done"
            => /\ turns'[1].error = ""
               /\ turns'[1].result
                     \in chat_get_timeline(turns[1].chat_id, turns[1].branch_id)]_vars
    /\ [](turns[1].pc = "streaming"
            => \A chunk \in LiveChunks :
                  LoopShrinks(turns[1].buffer \o from_utf8_lossy(chunk)))

\* A call that met a line cut in two by the chunk boundary has returned its
\* timeline.
C34_Witness ==
    /\ turns[1].pc = "done"
    /\ Len(turns[1].result) = 2
    /\ turns[1].result[2].content = <<"h", "SP">>

\* C35: whenever chat_send returns an error, whatever the cause (a failed
\* delivery of chat_stream_done included), the store holds no assistant
\* message of that call: a call that failed has left its user message only.
C35_FailedTurnLeavesNoAssistant ==
    \A t \in Slots :
        turns[t].pc = "failed" /\ turns[t].assistant_id # None
           => \A m \in messages : m.id # turns[t].assistant_id

\* A user message of the reply's branch, other than the one the reply
\* answers, created after that one and before the reply.
UserBetween(x, u, a) ==
    /\ x.role = "user"
    /\ x.id # u.id
    /\ x.chat_id = a.chat_id
    /\ x.branch_id = a.branch_id
    /\ u.created_at < x.created_at
    /\ x.created_at < a.created_at

NoUserBetweenReplyAndParent ==
    \A a \in messages : \A u \in messages :
        a.role = "assistant" /\ u.id = a.parent_id
           => ~\E x \in messages : UserBetween(x, u, a)

\* A second chat_send was started on the branch of one that was in flight.
SendsOverlappedOnBranch ==
    /\ turns[1].user_id # None
    /\ turns[2].user_id # None
    /\ turns[1].chat_id = turns[2].chat_id
    /\ turns[1].branch_id = turns[2].branch_id

ContextEndsWithOwnUserMessage(turn) ==
    LET rows == ContextRows(turn)
        list == turn.request[1].messages
    IN  \E own \in rows :
           /\ IsUserRowOf(own, turn)
           /\ \A x \in rows : x.role = "user" /\ x.id # own.id
                 => x.created_at < own.created_at
           /\ Len(list) = Cardinality(rows) + 1
           /\ list[1 + Cardinality({x \in rows : x.created_at <= own.created_at})]
                 = [role |-> "user", content |-> own.content]
           /\ \A i \in (2 + Cardinality({x \in rows : x.created_at <= own.created_at}))
                         ..Len(list) : list[i].role = "assistant"

C38_MessagesNameExistingChatAndBranch ==
    \A m \in messages :
        /\ \E c \in chats : c.id = m.chat_id
        /\ \E b \in branches : b.id = m.branch_id /\ b.chat_id = m.chat_id

====
